---- MODULE Spec2Model ----
(***************************************************************************)
(* Persistence core of the meal-planning backend: the five entity mappers  *)
(* (mappers.py), the five DynamoDB repositories and the single table with  *)
(* its secondary index GSI1 that they talk to.                             *)
(*                                                                         *)
(* Python values are modelled as follows.  A str that is never None is a   *)
(* TLA+ string, an int that is never None an integer, a list a sequence, a *)
(* dict a record.  Every value that may be None is a record: None itself,  *)
(* Str(s), Num(n), Date(d), and Decimal values are Dec(n).  A raised       *)
(* exception is the record Raise(kind).                                    *)
(*                                                                         *)
(* The datetime.now() calls made while one item is built are taken to      *)
(* return the same value.                                                  *)
(***************************************************************************)
EXTENDS Integers, Sequences, FiniteSets, TLC

(***************************************************************************)
(* Bounds of the model.                                                    *)
(***************************************************************************)
MaxClock == 1        \* datetime.now() takes the values 0..MaxClock
MaxItems == 2        \* Spec: saves are not issued beyond this many items
MaxEmptyPages == 1   \* empty pages the store may return during one call
MaxLag == 1          \* keys at which the index may be behind the table

(***************************************************************************)
(* Python values.                                                          *)
(***************************************************************************)
None == [none |-> TRUE]
Str(s) == [str |-> s]
Num(n) == [num |-> n]
Dec(n) == [dec |-> n]
Date(d) == [date |-> d]
Raise(kind) == [error |-> kind]

IsErr(v) == "error" \in DOMAIN v

\* bool(v) for a value that may be None, a number or a Decimal
Truthy(v) ==
    /\ v # None
    /\ ("num" \in DOMAIN v => v.num # 0)
    /\ ("dec" \in DOMAIN v => v.dec # 0)
    /\ ("str" \in DOMAIN v => v.str # "")

\* dict.get(key, default)
Get(d, key, default) == IF key \in DOMAIN d THEN d[key] ELSE default

\* Decimal(str(n)) of a number
DecimalOfStr(n) == Dec(n)

\* int(v) / float(v) of a stored value: a Decimal converts, None raises
PyNumber(v) ==
    IF v = None THEN Raise("TypeError")
    ELSE IF "dec" \in DOMAIN v THEN Num(v.dec)
    ELSE IF "num" \in DOMAIN v THEN v
    ELSE Raise("TypeError")

\* the first exception among a sequence of evaluated values, or None
FirstError(vals) ==
    IF \E i \in 1..Len(vals) : IsErr(vals[i])
    THEN vals[CHOOSE i \in 1..Len(vals) :
                 IsErr(vals[i]) /\ \A j \in 1..(i-1) : ~IsErr(vals[j])]
    ELSE None

(***************************************************************************)
(* DateTimeMapper.  A date is Date(d) for a day number d; its ISO text is  *)
(* IsoDates[d].  A datetime is the clock value t; its ISO text is          *)
(* IsoTimes[t+1].                                                          *)
(***************************************************************************)
IsoDates == <<"2024-01-01", "2024-01-08">>
IsoTimes == <<"2024-01-01T00:00:00", "2024-01-01T00:00:01",
              "2024-01-01T00:00:02", "2024-01-01T00:00:03">>

to_dynamodb_date(d) ==
    IF d = None THEN None ELSE Str(IsoDates[d.date])

from_dynamodb_date(s) ==
    IF s = None \/ "str" \notin DOMAIN s THEN None
    ELSE IF \E d \in 1..Len(IsoDates) : IsoDates[d] = s.str
         THEN Date(CHOOSE d \in 1..Len(IsoDates) : IsoDates[d] = s.str)
         ELSE Raise("ValueError")

to_dynamodb_datetime(t) == IsoTimes[t + 1]

(***************************************************************************)
(* Domain entity constructors with their __post_init__ validation.         *)
(***************************************************************************)
Recipe(r) ==
    IF r.servings < 1 THEN Raise("ValueError") ELSE r

\* a MealSlot whose __post_init__ accepts every number of servings
MealSlot_Unvalidated(m) == m

MealSlot(m) ==
    IF m.servings < 1 THEN Raise("ValueError") ELSE m

\* a Feedback whose __post_init__ accepts every rating
Feedback_Unvalidated(f) == f

Feedback(f) ==
    IF ~(1 <= f.rating /\ f.rating <= 5) THEN Raise("ValueError") ELSE f

(***************************************************************************)
(* RecipeMapper                                                            *)
(***************************************************************************)
RecipeMapper_to_dynamodb_item(recipe, now) ==
    [PK |-> "RECIPE#" \o recipe.id,
     SK |-> "METADATA",
     GSI1PK |-> "RECIPE#ALL",
     GSI1SK |-> recipe.title,
     EntityType |-> "Recipe",
     Data |->
       [id |-> recipe.id,
        title |-> recipe.title,
        description |-> recipe.description,
        servings |-> DecimalOfStr(recipe.servings),
        prep_time_minutes |-> DecimalOfStr(recipe.prep_time_minutes),
        cook_time_minutes |-> DecimalOfStr(recipe.cook_time_minutes),
        ingredients |->
          [i \in 1..Len(recipe.ingredients) |->
             [name |-> recipe.ingredients[i].name,
              quantity |-> DecimalOfStr(recipe.ingredients[i].quantity),
              unit |-> recipe.ingredients[i].unit,
              notes |-> recipe.ingredients[i].notes]],
        instructions |-> recipe.instructions,
        dietary_tags |-> recipe.dietary_tags,
        cuisine |-> recipe.cuisine,
        difficulty |-> recipe.difficulty,
        protein_type |-> recipe.protein_type,
        image_url |-> recipe.image_url,
        source_url |-> recipe.source_url,
        rating |-> IF Truthy(recipe.rating)
                   THEN DecimalOfStr(recipe.rating.num) ELSE None],
     CreatedAt |-> to_dynamodb_datetime(now),
     UpdatedAt |-> to_dynamodb_datetime(now)]

\* Ingredient(name=ing["name"], quantity=float(ing["quantity"]), ...)
IngredientFromItem(ing) ==
    IF ~({"name", "quantity", "unit"} \subseteq DOMAIN ing)
    THEN Raise("KeyError")
    ELSE IF IsErr(PyNumber(ing.quantity)) THEN PyNumber(ing.quantity)
    ELSE [name |-> ing.name,
          quantity |-> PyNumber(ing.quantity).num,
          unit |-> ing.unit,
          notes |-> Get(ing, "notes", None)]

RecipeMapper_from_dynamodb_item(item) ==
    LET data == Get(item, "Data", <<>>)
        ingredients_data == Get(data, "ingredients", <<>>)
        ingredients == [i \in 1..Len(ingredients_data) |->
                          IngredientFromItem(ingredients_data[i])]
        servings == PyNumber(Get(data, "servings", Dec(1)))
        prep == PyNumber(Get(data, "prep_time_minutes", Dec(0)))
        cook == PyNumber(Get(data, "cook_time_minutes", Dec(0)))
        rating == IF Truthy(Get(data, "rating", None))
                  THEN PyNumber(data.rating) ELSE None
        err == FirstError(ingredients \o <<servings, prep, cook, rating>>)
    IN  IF err # None THEN err
        ELSE Recipe(
          [id |-> Get(data, "id", ""),
           title |-> Get(data, "title", ""),
           description |-> Get(data, "description", ""),
           servings |-> servings.num,
           prep_time_minutes |-> prep.num,
           cook_time_minutes |-> cook.num,
           ingredients |-> ingredients,
           instructions |-> Get(data, "instructions", <<>>),
           dietary_tags |-> Get(data, "dietary_tags", <<>>),
           cuisine |-> Get(data, "cuisine", ""),
           difficulty |-> Get(data, "difficulty", ""),
           protein_type |-> Get(data, "protein_type", ""),
           image_url |-> Get(data, "image_url", None),
           source_url |-> Get(data, "source_url", None),
           rating |-> rating])

(***************************************************************************)
(* UserProfileMapper                                                       *)
(***************************************************************************)
UserProfileMapper_to_dynamodb_item(user, now) ==
    [PK |-> "USER#" \o user.id,
     SK |-> "PROFILE",
     EntityType |-> "UserProfile",
     Data |->
       [id |-> user.id,
        name |-> user.name,
        household_size |-> DecimalOfStr(user.household_size),
        dietary_restrictions |-> user.dietary_restrictions,
        disliked_ingredients |-> user.disliked_ingredients,
        cuisine_preferences |-> user.cuisine_preferences,
        skill_level |-> user.skill_level,
        max_prep_time_minutes |->
          IF Truthy(user.max_prep_time_minutes)
          THEN DecimalOfStr(user.max_prep_time_minutes.num) ELSE None,
        max_cook_time_minutes |->
          IF Truthy(user.max_cook_time_minutes)
          THEN DecimalOfStr(user.max_cook_time_minutes.num) ELSE None,
        avoid_protein_types |-> user.avoid_protein_types],
     CreatedAt |-> to_dynamodb_datetime(now),
     UpdatedAt |-> to_dynamodb_datetime(now)]

UserProfileMapper_from_dynamodb_item(item) ==
    LET data == Get(item, "Data", <<>>)
        household == PyNumber(Get(data, "household_size", Dec(2)))
        max_prep == IF Truthy(Get(data, "max_prep_time_minutes", None))
                    THEN PyNumber(data.max_prep_time_minutes) ELSE None
        max_cook == IF Truthy(Get(data, "max_cook_time_minutes", None))
                    THEN PyNumber(data.max_cook_time_minutes) ELSE None
        err == FirstError(<<household, max_prep, max_cook>>)
    IN  IF err # None THEN err
        ELSE
          [id |-> Get(data, "id", ""),
           name |-> Get(data, "name", ""),
           household_size |-> household.num,
           dietary_restrictions |-> Get(data, "dietary_restrictions", <<>>),
           disliked_ingredients |-> Get(data, "disliked_ingredients", <<>>),
           cuisine_preferences |-> Get(data, "cuisine_preferences", <<>>),
           skill_level |-> Get(data, "skill_level", "intermediate"),
           max_prep_time_minutes |-> max_prep,
           max_cook_time_minutes |-> max_cook,
           avoid_protein_types |-> Get(data, "avoid_protein_types", <<>>)]

(***************************************************************************)
(* MealPlanMapper                                                          *)
(***************************************************************************)
MealPlanMapper_to_dynamodb_item(meal_plan, now) ==
    [PK |-> "USER#" \o meal_plan.user_id,
     SK |-> "MEALPLAN#" \o meal_plan.id,
     GSI1PK |-> "MEALPLAN#" \o meal_plan.id,
     GSI1SK |-> to_dynamodb_date(meal_plan.week_start_date),
     EntityType |-> "MealPlan",
     Data |->
       [id |-> meal_plan.id,
        user_id |-> meal_plan.user_id,
        week_start_date |-> to_dynamodb_date(meal_plan.week_start_date),
        meals |->
          [i \in 1..Len(meal_plan.meals) |->
             [date |-> to_dynamodb_date(meal_plan.meals[i].date),
              recipe_id |-> meal_plan.meals[i].recipe_id,
              servings |-> DecimalOfStr(meal_plan.meals[i].servings),
              notes |-> meal_plan.meals[i].notes]],
        is_active |-> meal_plan.is_active,
        created_at |-> to_dynamodb_date(meal_plan.created_at)],
     CreatedAt |-> to_dynamodb_datetime(now),
     UpdatedAt |-> to_dynamodb_datetime(now)]

\* one iteration of the loop over meals_data
MealSlotFromItem(meal) ==
    IF "date" \notin DOMAIN meal THEN Raise("KeyError")
    ELSE LET meal_date == from_dynamodb_date(meal.date)
         IN  IF IsErr(meal_date) THEN meal_date
             ELSE IF meal_date = None THEN Raise("ValueError")
             ELSE IF ~({"recipe_id", "servings"} \subseteq DOMAIN meal)
                  THEN Raise("KeyError")
             ELSE IF IsErr(PyNumber(meal.servings))
                  THEN PyNumber(meal.servings)
             ELSE MealSlot([date |-> meal_date,
                            recipe_id |-> meal.recipe_id,
                            servings |-> PyNumber(meal.servings).num,
                            notes |-> Get(meal, "notes", None)])

MealPlanMapper_from_dynamodb_item(item) ==
    LET data == Get(item, "Data", <<>>)
        meals_data == Get(data, "meals", <<>>)
        meals == [i \in 1..Len(meals_data) |-> MealSlotFromItem(meals_data[i])]
        week_start == from_dynamodb_date(Get(data, "week_start_date", None))
        created_at == from_dynamodb_date(Get(data, "created_at", None))
        err == FirstError(meals \o <<week_start>>)
    IN  IF err # None THEN err
        ELSE IF week_start = None THEN Raise("ValueError")
        ELSE IF IsErr(created_at) THEN created_at
        ELSE
          [id |-> Get(data, "id", ""),
           user_id |-> Get(data, "user_id", ""),
           week_start_date |-> week_start,
           meals |-> meals,
           is_active |-> Get(data, "is_active", TRUE),
           created_at |-> created_at]

(***************************************************************************)
(* FeedbackMapper                                                          *)
(***************************************************************************)
FeedbackMapper_to_dynamodb_item(feedback, now) ==
    [PK |-> "USER#" \o feedback.user_id,
     SK |-> "FEEDBACK#" \o feedback.id,
     GSI1PK |-> "RECIPE#" \o feedback.recipe_id,
     GSI1SK |-> to_dynamodb_datetime(now),
     EntityType |-> "Feedback",
     Data |->
       [id |-> feedback.id,
        user_id |-> feedback.user_id,
        recipe_id |-> feedback.recipe_id,
        meal_plan_id |-> feedback.meal_plan_id,
        cooked_date |-> to_dynamodb_date(feedback.cooked_date),
        rating |-> DecimalOfStr(feedback.rating),
        would_make_again |-> feedback.would_make_again,
        notes |-> feedback.notes,
        created_at |-> to_dynamodb_date(feedback.created_at)],
     CreatedAt |-> to_dynamodb_datetime(now),
     UpdatedAt |-> to_dynamodb_datetime(now)]

FeedbackMapper_from_dynamodb_item(item) ==
    LET data == Get(item, "Data", <<>>)
        cooked_date == from_dynamodb_date(Get(data, "cooked_date", None))
        rating == PyNumber(Get(data, "rating", Dec(3)))
        created_at == from_dynamodb_date(Get(data, "created_at", None))
        err == FirstError(<<cooked_date, rating, created_at>>)
    IN  IF err # None THEN err
        ELSE Feedback(
          [id |-> Get(data, "id", ""),
           user_id |-> Get(data, "user_id", ""),
           recipe_id |-> Get(data, "recipe_id", ""),
           rating |-> rating.num,
           would_make_again |-> Get(data, "would_make_again", FALSE),
           meal_plan_id |-> Get(data, "meal_plan_id", None),
           notes |-> Get(data, "notes", None),
           cooked_date |-> cooked_date,
           created_at |-> created_at])

(***************************************************************************)
(* GroceryListMapper                                                       *)
(***************************************************************************)
GroceryListMapper_to_dynamodb_item(grocery_list, now) ==
    [PK |-> "MEALPLAN#" \o grocery_list.meal_plan_id,
     SK |-> "GROCERYLIST#" \o grocery_list.id,
     EntityType |-> "GroceryList",
     Data |->
       [id |-> grocery_list.id,
        meal_plan_id |-> grocery_list.meal_plan_id,
        items |->
          [i \in 1..Len(grocery_list.items) |->
             [name |-> grocery_list.items[i].name,
              quantity |-> DecimalOfStr(grocery_list.items[i].quantity),
              unit |-> grocery_list.items[i].unit,
              category |-> grocery_list.items[i].category,
              recipe_sources |-> grocery_list.items[i].recipe_sources,
              is_purchased |-> grocery_list.items[i].is_purchased,
              notes |-> grocery_list.items[i].notes]],
        created_at |-> to_dynamodb_date(grocery_list.created_at),
        week_start_date |-> to_dynamodb_date(grocery_list.week_start_date)],
     CreatedAt |-> to_dynamodb_datetime(now),
     UpdatedAt |-> to_dynamodb_datetime(now)]

\* GroceryItem(name=grocery_item["name"], quantity=float(...), ...)
GroceryItemFromItem(grocery_item) ==
    IF ~({"name", "quantity", "unit"} \subseteq DOMAIN grocery_item)
    THEN Raise("KeyError")
    ELSE IF IsErr(PyNumber(grocery_item.quantity))
         THEN PyNumber(grocery_item.quantity)
    ELSE [name |-> grocery_item.name,
          quantity |-> PyNumber(grocery_item.quantity).num,
          unit |-> grocery_item.unit,
          category |-> Get(grocery_item, "category", "other"),
          recipe_sources |-> Get(grocery_item, "recipe_sources", <<>>),
          is_purchased |-> Get(grocery_item, "is_purchased", FALSE),
          notes |-> Get(grocery_item, "notes", None)]

GroceryListMapper_from_dynamodb_item(item) ==
    LET data == Get(item, "Data", <<>>)
        items_data == Get(data, "items", <<>>)
        items == [i \in 1..Len(items_data) |->
                    GroceryItemFromItem(items_data[i])]
        created_at == from_dynamodb_date(Get(data, "created_at", None))
        week_start == from_dynamodb_date(Get(data, "week_start_date", None))
        err == FirstError(items \o <<created_at, week_start>>)
    IN  IF err # None THEN err
        ELSE
          [id |-> Get(data, "id", ""),
           meal_plan_id |-> Get(data, "meal_plan_id", ""),
           items |-> items,
           created_at |-> created_at,
           week_start_date |-> week_start]

(***************************************************************************)
(* The mappers by entity type.                                             *)
(***************************************************************************)
EntityTypes == {"Recipe", "UserProfile", "MealPlan", "Feedback", "GroceryList"}

\* a key scheme without the type prefixes
UntypedKey(item) == [item EXCEPT !.PK = "ID#" \o item.Data.id,
                                 !.SK = "METADATA"]

to_dynamodb_item_UntypedKeys(type, e, now) ==
    CASE type = "Recipe" -> UntypedKey(RecipeMapper_to_dynamodb_item(e, now))
      [] type = "UserProfile" ->
           UntypedKey(UserProfileMapper_to_dynamodb_item(e, now))
      [] type = "MealPlan" ->
           UntypedKey(MealPlanMapper_to_dynamodb_item(e, now))
      [] type = "Feedback" ->
           UntypedKey(FeedbackMapper_to_dynamodb_item(e, now))
      [] type = "GroceryList" ->
           UntypedKey(GroceryListMapper_to_dynamodb_item(e, now))

to_dynamodb_item(type, e, now) ==
    CASE type = "Recipe" -> RecipeMapper_to_dynamodb_item(e, now)
      [] type = "UserProfile" -> UserProfileMapper_to_dynamodb_item(e, now)
      [] type = "MealPlan" -> MealPlanMapper_to_dynamodb_item(e, now)
      [] type = "Feedback" -> FeedbackMapper_to_dynamodb_item(e, now)
      [] type = "GroceryList" -> GroceryListMapper_to_dynamodb_item(e, now)

from_dynamodb_item(type, item) ==
    CASE type = "Recipe" -> RecipeMapper_from_dynamodb_item(item)
      [] type = "UserProfile" -> UserProfileMapper_from_dynamodb_item(item)
      [] type = "MealPlan" -> MealPlanMapper_from_dynamodb_item(item)
      [] type = "Feedback" -> FeedbackMapper_from_dynamodb_item(item)
      [] type = "GroceryList" -> GroceryListMapper_from_dynamodb_item(item)

(***************************************************************************)
(* The store: one table keyed by (PK, SK) and the index GSI1 keyed by      *)
(* GSI1PK (scripts/init_dynamodb.py).  A table or an index content is a    *)
(* set of items.                                                           *)
(***************************************************************************)
SameKey(i, j) == i.PK = j.PK /\ i.SK = j.SK

\* a put that adds the item next to what is stored under its key
PutItem_Append(tbl, item) == tbl \cup {item}

\* a put that gives way to an item already stored under the key
PutItem_IfAbsent(tbl, item) ==
    IF \E i \in tbl : SameKey(i, item) THEN tbl ELSE tbl \cup {item}

\* put: full item overwrite of whatever is stored under the item's key
PutItem(tbl, item) == {i \in tbl : ~SameKey(i, item)} \cup {item}

\* point get: the set holding the item stored under the key, if any
GetItem(tbl, pk, sk) == {i \in tbl : i.PK = pk /\ i.SK = sk}

\* delete-by-key: succeeds whether or not an item is stored under the key
DeleteItem(tbl, pk, sk) == {i \in tbl : ~(i.PK = pk /\ i.SK = sk)}

begins_with(s, prefix) ==
    Len(s) >= Len(prefix) /\ SubSeq(s, 1, Len(prefix)) = prefix

\* KeyConditionExpression "PK = :pk AND begins_with(SK, :sk)"
QueryTable(tbl, pk, sk) == {i \in tbl : i.PK = pk /\ begins_with(i.SK, sk)}

\* the items an index holds: those with both index key attributes
Projected(tbl) ==
    {i \in tbl : "GSI1PK" \in DOMAIN i /\ "GSI1SK" \in DOMAIN i}

\* IndexName "GSI1", KeyConditionExpression "GSI1PK = :gsi1pk"
QueryIndex(idx, gsi1pk) == {i \in idx : i.GSI1PK = gsi1pk}

\* the keys at which the index does not yet show what the table holds
Lagging(tbl, idx) ==
    {k \in {<<i.PK, i.SK>> : i \in tbl \cup idx} :
       {i \in Projected(tbl) : <<i.PK, i.SK>> = k}
         # {i \in idx : <<i.PK, i.SK>> = k}}

\* FilterExpression "attribute_exists(#data) AND #data.#id = :id"
ScanFilter(tbl, id) ==
    {i \in tbl : /\ "Data" \in DOMAIN i
                 /\ "id" \in DOMAIN i.Data
                 /\ i.Data.id = id}

(***************************************************************************)
(* Sample entities.                                                        *)
(***************************************************************************)
Flour == [name |-> "flour", quantity |-> 2, unit |-> "cups", notes |-> None]
Onion == [name |-> "onion", quantity |-> 1, unit |-> "whole",
          notes |-> Str("diced")]

ARecipe(id, rating) ==
    [id |-> id, title |-> "Soup", description |-> "A soup", servings |-> 4,
     prep_time_minutes |-> 10, cook_time_minutes |-> 0,
     ingredients |-> <<Flour>>, instructions |-> <<"Mix">>,
     dietary_tags |-> <<>>, cuisine |-> "other", difficulty |-> "medium",
     protein_type |-> "none", image_url |-> None, source_url |-> None,
     rating |-> rating]

AUser(id, max_prep) ==
    [id |-> id, name |-> "Ann", household_size |-> 2,
     dietary_restrictions |-> <<>>, disliked_ingredients |-> <<>>,
     cuisine_preferences |-> <<>>, max_prep_time_minutes |-> max_prep,
     max_cook_time_minutes |-> None, skill_level |-> "intermediate",
     avoid_protein_types |-> <<>>]

AMealPlan(id, user_id, week, is_active) ==
    [id |-> id, user_id |-> user_id, week_start_date |-> Date(week),
     meals |-> <<>>, created_at |-> None, is_active |-> is_active]

AFeedback(id, user_id, recipe_id, rating) ==
    [id |-> id, user_id |-> user_id, recipe_id |-> recipe_id,
     rating |-> rating, would_make_again |-> TRUE, meal_plan_id |-> None,
     notes |-> None, cooked_date |-> None, created_at |-> None]

AGroceryList(id, meal_plan_id) ==
    [id |-> id, meal_plan_id |-> meal_plan_id, items |-> <<>>,
     created_at |-> None, week_start_date |-> None]

Typed(type, S) == {[type |-> type, e |-> e] : e \in S}

(***************************************************************************)
(* Inputs of the mapper specification: every entity type with its optional *)
(* fields absent, zero and set, its nested collections empty and not, and  *)
(* identifiers that look like parts of the key scheme.                     *)
(***************************************************************************)
MapIds == {"a", "b", "ALL"}
OptNums == {None, Num(0), Num(4)}
OptDates == {None, Date(1)}

ASlot == [date |-> Date(2), recipe_id |-> "a", servings |-> 2, notes |-> None]
AnItem == [name |-> "flour", quantity |-> 2, unit |-> "cups",
           category |-> "other", recipe_sources |-> <<"a">>,
           is_purchased |-> FALSE, notes |-> None]

PayloadInputs ==
    Typed("Recipe",
          {[ARecipe("a", r) EXCEPT !.ingredients = ing, !.image_url = u,
                                   !.cook_time_minutes = c] :
             r \in OptNums, ing \in {<<>>, <<Flour>>, <<Flour, Onion>>},
             u \in {None, Str("http://img")}, c \in {0, 20}})
    \cup Typed("UserProfile",
          {[AUser("a", p) EXCEPT !.max_cook_time_minutes = c,
                                 !.dietary_restrictions = d] :
             p \in OptNums, c \in OptNums, d \in {<<>>, <<"vegan">>}})
    \cup Typed("MealPlan",
          {[AMealPlan("a", "a", 1, act) EXCEPT !.meals = m, !.created_at = c] :
             act \in BOOLEAN, c \in OptDates,
             m \in {<<>>, <<ASlot>>,
                    <<ASlot, [ASlot EXCEPT !.notes = Str("leftovers")]>>}})
    \cup Typed("Feedback",
          {[AFeedback("a", "a", "a", r) EXCEPT !.meal_plan_id = m,
                                               !.cooked_date = c,
                                               !.would_make_again = w] :
             r \in {1, 5}, m \in {None, Str("a")}, c \in OptDates,
             w \in BOOLEAN})
    \cup Typed("GroceryList",
          {[AGroceryList("a", "a") EXCEPT !.items = it, !.created_at = c,
                                          !.week_start_date = w] :
             it \in {<<>>, <<AnItem>>,
                     <<AnItem, [AnItem EXCEPT !.notes = Str("ripe"),
                                              !.is_purchased = TRUE]>>},
             c \in OptDates, w \in OptDates})

KeyInputs ==
    Typed("Recipe", {ARecipe(id, None) : id \in MapIds})
    \cup Typed("UserProfile", {AUser(id, None) : id \in MapIds})
    \cup Typed("MealPlan",
               {AMealPlan(id, u, 1, TRUE) : id \in MapIds, u \in MapIds})
    \cup Typed("Feedback",
               {AFeedback(id, u, r, 5) :
                  id \in MapIds, u \in MapIds, r \in {"a", "ALL"}})
    \cup Typed("GroceryList",
               {AGroceryList(id, m) : id \in MapIds, m \in MapIds})

\* the fields of an entity that its key is built from
KeyFields(x) ==
    CASE x.type = "Recipe" -> <<x.e.id>>
      [] x.type = "UserProfile" -> <<x.e.id>>
      [] x.type = "MealPlan" -> <<x.e.user_id, x.e.id>>
      [] x.type = "Feedback" -> <<x.e.user_id, x.e.id>>
      [] x.type = "GroceryList" -> <<x.e.meal_plan_id, x.e.id>>

VARIABLES
    d_pc,      \* specifications of the functions and entity methods that
               \*   use no store: "call", "done"; "off" in the others
    d_obj,     \* the entity the method is called on, or None
    d_call,    \* the function or method called, with its arguments
    d_ret,     \* what it returned, or the exception it raised
    d_log      \* history: the calls made on d_obj so far

dvars == <<d_pc, d_obj, d_call, d_ret, d_log>>

VARIABLES
    m_pc,      \* mapper specification: "in", "item", "stored", "back";
               \*   "off" in the other specifications
    m_in,      \* the two entities drawn as inputs
    m_item,    \* their items, once to_dynamodb_item has been applied
    m_tbl,     \* a table into which the two items are put, first then second
    m_back     \* from_dynamodb_item of the first item

mvars == <<m_pc, m_in, m_item, m_tbl, m_back>>

(***************************************************************************)
(* Repositories.  A caller runs one repository method at a time; every     *)
(* store request of the method is one atomic step, and the method's code   *)
(* between two requests belongs to the step of the request before it.      *)
(***************************************************************************)
VARIABLES
    table,     \* the items stored in the table
    gsi,       \* the items GSI1 currently holds (it follows the table late)
    clock,     \* the value datetime.now() returns
    pc,        \* per caller: "idle", "locate", "delete_item", "next_page",
               \*             "returning"
    call,      \* per caller: the method running, with its arguments
    loc,       \* per caller: the method's local variables
    ret,       \* per caller: the value being returned or the exception raised
    saved,     \* history: the entity last saved, with its repository,
               \*          until a delete of its id in that repository
    lastPut    \* history: the caller of the latest put_item

rvars == <<table, gsi, clock, pc, call, loc, ret, saved, lastPut>>

Callers == {1, 2}
NoCall == [op |-> "none"]
\* what a method returns: an entity or None, a bool, or a list; each kind
\* under a field of its own
Value(v) == [value |-> v]
Truth(b) == [truth |-> b]
Listing(xs) == [listing |-> xs]
Raised(kind) == [raised |-> kind]
Result(v) == IF IsErr(v) THEN Raised(v.error) ELSE Value(v)

KeyOf(i) == <<i.PK, i.SK>>
Keys(tbl) == {KeyOf(i) : i \in tbl}

\* an item of the repository's entity type with this id is stored
Stored(tbl, repo, id) ==
    \E i \in tbl : i.EntityType = repo /\ i.Data.id = id

(***************************************************************************)
(* Pages.  The store answers a request with some of the matching items it  *)
(* has not yet evaluated, in an order of its choosing.  A Query without    *)
(* filter returns at least one item while any is left; a Scan evaluates    *)
(* part of the table and applies the filter afterwards, so its page may be *)
(* empty although matching items are left.                                 *)
(***************************************************************************)
Orderings(S) ==
    {s \in [1..Cardinality(S) -> S] :
       \A i, j \in 1..Cardinality(S) : s[i] = s[j] => i = j}

FilteredPages(rem) == UNION {Orderings(T) : T \in SUBSET rem}

QueryPages(rem) ==
    IF rem = {} THEN {<<>>} ELSE FilteredPages(rem) \ {<<>>}

PointRepos == {"Recipe", "UserProfile"}

PointKey(repo, id) ==
    IF repo = "Recipe" THEN <<"RECIPE#" \o id, "METADATA">>
    ELSE <<"USER#" \o id, "PROFILE">>

\* the items the locate request of get_by_id, exists and delete matches:
\* a point get, a query of GSI1, or a filtered scan
Located(tbl, idx, repo, id) ==
    CASE repo \in PointRepos ->
           GetItem(tbl, PointKey(repo, id)[1], PointKey(repo, id)[2])
      [] repo = "MealPlan" -> QueryIndex(idx, "MEALPLAN#" \o id)
      [] OTHER -> ScanFilter(tbl, id)

\* the Items lists the response to that request may carry
LocatePages(tbl, idx, repo, id) ==
    CASE repo \in PointRepos -> Orderings(Located(tbl, idx, repo, id))
      [] repo = "MealPlan" -> QueryPages(Located(tbl, idx, repo, id))
      [] OTHER -> FilteredPages(Located(tbl, idx, repo, id))

(***************************************************************************)
(* save: to_dynamodb_item, then put_item.                                  *)
(***************************************************************************)
SaveStep(a, repo, e, n, maxItems) ==
    LET item == to_dynamodb_item(repo, e, clock)
    IN  /\ Cardinality(PutItem(table, item)) <= maxItems
        /\ Cardinality(Lagging(PutItem(table, item), gsi)) <= MaxLag
        /\ table' = PutItem(table, item)
        /\ lastPut' = a
        /\ saved' = [repo |-> repo, e |-> e]
        /\ call' = [call EXCEPT ![a] = [op |-> "save", repo |-> repo,
                                        e |-> e, n |-> n]]
        /\ ret' = [ret EXCEPT ![a] = Value(None)]
        /\ pc' = [pc EXCEPT ![a] = "returning"]
        /\ UNCHANGED <<dvars, mvars, gsi, clock, loc>>

save(a, repo, e, maxItems) ==
    /\ pc[a] = "idle"
    /\ SaveStep(a, repo, e, 1, maxItems)

\* the caller saves the same entity once more, right after save returned
save_again(a, maxItems) ==
    /\ pc[a] = "returning"
    /\ call[a].op = "save"
    /\ call[a].n = 1
    /\ SaveStep(a, call[a].repo, call[a].e, 2, maxItems)

(***************************************************************************)
(* get_by_id and exists: one locate request, of which only the first page  *)
(* is read.                                                                *)
(***************************************************************************)
\* a reading of the first item that does not test for an empty response
FirstItem_Unchecked(repo, Items) ==
    IF Items = <<>> THEN Raised("IndexError")
    ELSE Result(from_dynamodb_item(repo, Items[1]))

\* "if not response.get('Items'): return None", then
\* "return Mapper.from_dynamodb_item(response['Items'][0])"
FirstItem(repo, Items) ==
    IF Items = <<>> THEN Value(None)
    ELSE Result(from_dynamodb_item(repo, Items[1]))

get_by_id(a, repo, id) ==
    /\ pc[a] = "idle"
    /\ \E Items \in LocatePages(table, gsi, repo, id) :
         ret' = [ret EXCEPT ![a] = FirstItem(repo, Items)]
    /\ call' = [call EXCEPT ![a] = [op |-> "get_by_id", repo |-> repo,
                                    id |-> id]]
    /\ pc' = [pc EXCEPT ![a] = "returning"]
    /\ UNCHANGED <<dvars, mvars, table, gsi, clock, loc, saved, lastPut>>

exists(a, repo, id) ==
    /\ pc[a] = "idle"
    /\ \E Items \in LocatePages(table, gsi, repo, id) :
         ret' = [ret EXCEPT ![a] = Truth(Items # <<>>)]
    /\ call' = [call EXCEPT ![a] = [op |-> "exists", repo |-> repo,
                                    id |-> id]]
    /\ pc' = [pc EXCEPT ![a] = "returning"]
    /\ UNCHANGED <<dvars, mvars, table, gsi, clock, loc, saved, lastPut>>

(***************************************************************************)
(* delete: self.exists(id); for the repositories that do not know the key  *)
(* a second locate request; then delete_item.                              *)
(***************************************************************************)
delete(a, repo, id) ==
    /\ pc[a] = "idle"
    /\ call' = [call EXCEPT ![a] =
                  [op |-> "delete", repo |-> repo, id |-> id,
                   stored0 |-> Stored(table, repo, id)]]
    /\ \E Items \in LocatePages(table, gsi, repo, id) :
         IF Items = <<>>
         THEN /\ ret' = [ret EXCEPT ![a] = Truth(FALSE)]
              /\ pc' = [pc EXCEPT ![a] = "returning"]
              /\ loc' = [loc EXCEPT ![a] = [removed |-> {}]]
         ELSE /\ ret' = ret
              /\ pc' = [pc EXCEPT ![a] = IF repo \in PointRepos
                                         THEN "delete_item" ELSE "locate"]
              /\ loc' = [loc EXCEPT ![a] = [key |-> PointKey(repo, id)]]
    /\ UNCHANGED <<dvars, mvars, table, gsi, clock, saved, lastPut>>

delete_locate(a) ==
    /\ pc[a] = "locate"
    /\ \E Items \in LocatePages(table, gsi, call[a].repo, call[a].id) :
         IF Items = <<>>
         THEN /\ ret' = [ret EXCEPT ![a] = Truth(FALSE)]
              /\ pc' = [pc EXCEPT ![a] = "returning"]
              /\ loc' = [loc EXCEPT ![a] = [removed |-> {}]]
         ELSE /\ ret' = ret
              /\ pc' = [pc EXCEPT ![a] = "delete_item"]
              /\ loc' = [loc EXCEPT ![a] = [key |-> KeyOf(Items[1])]]
    /\ UNCHANGED <<dvars, mvars, table, gsi, clock, call, saved, lastPut>>

delete_item(a) ==
    /\ pc[a] = "delete_item"
    /\ table' = DeleteItem(table, loc[a].key[1], loc[a].key[2])
    /\ Cardinality(Lagging(table', gsi)) <= MaxLag
    /\ loc' = [loc EXCEPT ![a] = [removed |-> table \ table']]
    /\ saved' = IF /\ saved # None
                   /\ saved.repo = call[a].repo
                   /\ saved.e.id = call[a].id
                THEN None
                ELSE saved
    /\ ret' = [ret EXCEPT ![a] = Truth(TRUE)]
    /\ pc' = [pc EXCEPT ![a] = "returning"]
    /\ UNCHANGED <<dvars, mvars, gsi, clock, call, lastPut>>

(***************************************************************************)
(* The method returns to its caller.                                       *)
(***************************************************************************)
Return(a) ==
    /\ pc[a] = "returning"
    /\ pc' = [pc EXCEPT ![a] = "idle"]
    /\ call' = [call EXCEPT ![a] = NoCall]
    /\ loc' = [loc EXCEPT ![a] = None]
    /\ ret' = [ret EXCEPT ![a] = None]
    /\ UNCHANGED <<dvars, mvars, table, gsi, clock, saved, lastPut>>

(***************************************************************************)
(* The finders that read one page: get_active_by_user,                     *)
(* get_by_user_and_week, get_by_meal_plan.                                 *)
(***************************************************************************)
FromItems(repo, Items) ==
    [k \in 1..Len(Items) |-> from_dynamodb_item(repo, Items[k])]

\* the value of "for x in xs: if hit(x): return x" followed by "return None",
\* given the positions at which the test holds; an exception raised while an
\* element is converted ends the loop
FirstHit(xs, hits) ==
    LET stops == {k \in 1..Len(xs) : IsErr(xs[k]) \/ k \in hits}
    IN  IF stops = {} THEN Value(None)
        ELSE Result(xs[CHOOSE k \in stops : \A j \in stops : k <= j])

get_active_by_user(a, user_id) ==
    /\ pc[a] = "idle"
    /\ \E Items \in QueryPages(QueryTable(table, "USER#" \o user_id,
                                          "MEALPLAN#")) :
         LET plans == FromItems("MealPlan", Items)
         IN  ret' = [ret EXCEPT ![a] =
                       FirstHit(plans, {k \in 1..Len(plans) :
                                          /\ ~IsErr(plans[k])
                                          /\ plans[k].is_active})]
    /\ call' = [call EXCEPT ![a] = [op |-> "get_active_by_user",
                                    repo |-> "MealPlan",
                                    user_id |-> user_id]]
    /\ pc' = [pc EXCEPT ![a] = "returning"]
    /\ UNCHANGED <<dvars, mvars, table, gsi, clock, loc, saved, lastPut>>

get_by_user_and_week(a, user_id, week_start_date) ==
    /\ pc[a] = "idle"
    /\ \E Items \in QueryPages(QueryTable(table, "USER#" \o user_id,
                                          "MEALPLAN#")) :
         LET plans == FromItems("MealPlan", Items)
             target_date_str == to_dynamodb_date(week_start_date)
         IN  ret' = [ret EXCEPT ![a] =
                       FirstHit(plans, {k \in 1..Len(plans) :
                          /\ ~IsErr(plans[k])
                          /\ plans[k].week_start_date # None
                          /\ to_dynamodb_date(plans[k].week_start_date)
                               = target_date_str})]
    /\ call' = [call EXCEPT ![a] = [op |-> "get_by_user_and_week",
                                    repo |-> "MealPlan",
                                    user_id |-> user_id,
                                    week_start_date |-> week_start_date]]
    /\ pc' = [pc EXCEPT ![a] = "returning"]
    /\ UNCHANGED <<dvars, mvars, table, gsi, clock, loc, saved, lastPut>>

get_by_meal_plan(a, meal_plan_id) ==
    /\ pc[a] = "idle"
    /\ \E Items \in QueryPages(QueryTable(table, "MEALPLAN#" \o meal_plan_id,
                                          "GROCERYLIST#")) :
         ret' = [ret EXCEPT ![a] = FirstItem("GroceryList", Items)]
    /\ call' = [call EXCEPT ![a] = [op |-> "get_by_meal_plan",
                                    repo |-> "GroceryList",
                                    meal_plan_id |-> meal_plan_id]]
    /\ pc' = [pc EXCEPT ![a] = "returning"]
    /\ UNCHANGED <<dvars, mvars, table, gsi, clock, loc, saved, lastPut>>

(***************************************************************************)
(* The finders that follow the continuation token: get_all, get_by_user,   *)
(* get_by_recipe.  The token stands for the keys the store has evaluated   *)
(* so far.  A response carries some of the items not yet evaluated; it has *)
(* no token only if it carries all of them.  A response with a token that  *)
(* carries nothing, or that leaves nothing behind, is counted, and the     *)
(* store gives at most MaxEmptyPages of them during one call.              *)
(***************************************************************************)
QueryResponses(matching, start, spare) ==
    LET rem == {i \in matching : KeyOf(i) \notin start}
    IN  {[Items |-> p] : p \in Orderings(rem)}
        \cup {[Items |-> p,
               LastEvaluatedKey |->
                 [evaluated |-> start \cup {KeyOf(p[k]) : k \in 1..Len(p)}]] :
                p \in {q \in FilteredPages(rem) :
                         \/ spare
                         \/ (q # <<>> /\ Len(q) < Cardinality(rem))}}

\* a loop test that never asks for a further page
NoLastEvaluatedKey(response) == FALSE

\* the test of the loop: "LastEvaluatedKey" in response
HasLastEvaluatedKey(response) == "LastEvaluatedKey" \in DOMAIN response

\* the items the finder's key condition matches
Matching(tbl, idx, c) ==
    CASE c.op = "get_all" -> QueryIndex(idx, "RECIPE#ALL")
      [] c.op = "get_by_user" ->
           QueryTable(tbl, "USER#" \o c.user_id, "FEEDBACK#")
      [] c.op = "get_by_recipe" -> QueryIndex(idx, "RECIPE#" \o c.recipe_id)

\* one request of a finder c and the code up to the next request or the
\* return; l holds the list built so far (acc), the token of the latest
\* response (lek), and for the record the items that matched when the call
\* began (src0), the requests made and the empty pages received (idle)
FetchPage(a, c, l) ==
    \E response \in QueryResponses(Matching(table, gsi, c),
                                   IF l.lek = None THEN {}
                                   ELSE l.lek.evaluated,
                                   l.idle < MaxEmptyPages) :
      LET more == l.acc \o FromItems(c.repo, response.Items)
          err == FirstError(more)
          token == IF "LastEvaluatedKey" \in DOMAIN response
                   THEN response.LastEvaluatedKey ELSE None
          spent == /\ token # None
                   /\ \/ response.Items = <<>>
                      \/ \A i \in Matching(table, gsi, c) :
                            KeyOf(i) \in token.evaluated
      IN  /\ call' = [call EXCEPT ![a] = c]
          /\ loc' = [loc EXCEPT ![a] =
                       [acc |-> more, src0 |-> l.src0, lek |-> token,
                        requests |-> l.requests + 1,
                        idle |-> IF spent THEN l.idle + 1 ELSE l.idle]]
          /\ IF err # None
             THEN /\ ret' = [ret EXCEPT ![a] = Raised(err.error)]
                  /\ pc' = [pc EXCEPT ![a] = "returning"]
             ELSE IF HasLastEvaluatedKey(response)
             THEN /\ ret' = ret
                  /\ pc' = [pc EXCEPT ![a] = "next_page"]
             ELSE /\ ret' = [ret EXCEPT ![a] = Listing(more)]
                  /\ pc' = [pc EXCEPT ![a] = "returning"]
          /\ UNCHANGED <<dvars, mvars, table, gsi, clock, saved, lastPut>>

FirstPage(a, c) ==
    FetchPage(a, c, [acc |-> <<>>, src0 |-> Matching(table, gsi, c),
                     lek |-> None, requests |-> 0, idle |-> 0])

get_all(a) ==
    /\ pc[a] = "idle"
    /\ FirstPage(a, [op |-> "get_all", repo |-> "Recipe"])

get_by_user(a, user_id) ==
    /\ pc[a] = "idle"
    /\ FirstPage(a, [op |-> "get_by_user", repo |-> "Feedback",
                     user_id |-> user_id])

get_by_recipe(a, recipe_id) ==
    /\ pc[a] = "idle"
    /\ FirstPage(a, [op |-> "get_by_recipe", repo |-> "Feedback",
                     recipe_id |-> recipe_id])

\* the body of "while 'LastEvaluatedKey' in response"
next_page(a) ==
    /\ pc[a] = "next_page"
    /\ FetchPage(a, call[a], loc[a])

(***************************************************************************)
(* The environment: time passes; the index catches up with the table, one  *)
(* key at a time.                                                          *)
(***************************************************************************)
Tick ==
    /\ clock < MaxClock
    /\ clock' = clock + 1
    /\ UNCHANGED <<dvars, mvars, table, gsi, pc, call, loc, ret, saved, lastPut>>

IndexPropagateAt(k) ==
    LET cur == {i \in Projected(table) : KeyOf(i) = k}
        old == {i \in gsi : KeyOf(i) = k}
    IN  /\ cur # old
        /\ gsi' = (gsi \ old) \cup cur
        /\ UNCHANGED <<dvars, mvars, table, clock, pc, call, loc, ret, saved,
                       lastPut>>

IndexPropagate == \E k \in Keys(table) \cup Keys(gsi) : IndexPropagateAt(k)

(***************************************************************************)
(* Initial states.                                                         *)
(***************************************************************************)
Ids == {"a", "b"}
MoreIds == {"a", "b", "c"}

vars == <<dvars, mvars, rvars>>

RepoInit ==
    /\ table = {}
    /\ gsi = {}
    /\ clock = 0
    /\ pc = [a \in Callers |-> "idle"]
    /\ call = [a \in Callers |-> NoCall]
    /\ loc = [a \in Callers |-> None]
    /\ ret = [a \in Callers |-> None]
    /\ saved = None
    /\ lastPut = 0

MapOff ==
    /\ m_pc = "off"
    /\ m_in = <<>>
    /\ m_item = <<>>
    /\ m_tbl = {}
    /\ m_back = None

DomOff ==
    /\ d_pc = "off"
    /\ d_obj = None
    /\ d_call = NoCall
    /\ d_ret = None
    /\ d_log = <<>>

Init == DomOff /\ MapOff /\ RepoInit

(***************************************************************************)
(* Spec: one caller and the methods that issue one request per step of     *)
(* their code, over all five repositories, with the index lagging behind.  *)
(***************************************************************************)
Entities ==
    Typed("Recipe", {ARecipe(id, r) : id \in Ids, r \in {Num(0), Num(4)}})
    \cup Typed("UserProfile", {AUser(id, p) : id \in Ids, p \in {None, Num(0)}})
    \cup Typed("MealPlan",
               {AMealPlan(id, "a", IF act THEN 1 ELSE 2, act) :
                  id \in Ids, act \in BOOLEAN})
    \cup Typed("Feedback", {AFeedback(id, "a", "a", 5) : id \in Ids})
    \cup Typed("GroceryList", {AGroceryList(id, "a") : id \in Ids})

Next ==
    \/ \E x \in Entities : save(1, x.type, x.e, MaxItems)
    \/ \E repo \in EntityTypes, id \in Ids : get_by_id(1, repo, id)
    \/ \E repo \in EntityTypes, id \in Ids : exists(1, repo, id)
    \/ \E repo \in EntityTypes, id \in Ids : delete(1, repo, id)
    \/ delete_locate(1)
    \/ delete_item(1)
    \/ \E u \in Ids : get_active_by_user(1, u)
    \/ \E u \in Ids, d \in {Date(1), Date(2)} : get_by_user_and_week(1, u, d)
    \/ \E m \in Ids : get_by_meal_plan(1, m)
    \/ Return(1)
    \/ IndexPropagate

Spec == Init /\ [][Next]_vars

(***************************************************************************)
(* SpecSave: one caller saves entities of the five types, some of them     *)
(* twice in a row, while time passes.                                      *)
(***************************************************************************)
MaxSaved == 2        \* saves are not issued beyond this many stored items

Saveable ==
    Typed("Recipe", {ARecipe(id, Num(4)) : id \in Ids})
    \cup Typed("UserProfile", {AUser("a", Num(30))})
    \cup Typed("MealPlan", {AMealPlan("a", "a", 1, TRUE)})
    \cup Typed("Feedback", {AFeedback("a", "a", "a", 5)})
    \cup Typed("GroceryList", {AGroceryList("a", "a")})

SaveNext ==
    \/ \E x \in Saveable : save(1, x.type, x.e, MaxSaved)
    \/ save_again(1, MaxSaved)
    \/ Return(1)
    \/ Tick
    \/ IndexPropagate

SpecSave == Init /\ [][SaveNext]_vars

(***************************************************************************)
(* SpecPage: one caller saves recipes and feedback and reads them back     *)
(* with the finders that follow the continuation token.                    *)
(***************************************************************************)
MaxListed == 2       \* saves are not issued beyond this many stored items

Listed ==
    Typed("Recipe", {ARecipe(id, None) : id \in MoreIds})
    \cup Typed("Feedback",
               {AFeedback(id, u, r, 5) :
                  id \in MoreIds, u \in {"a"}, r \in Ids})

PageNext ==
    \/ \E x \in Listed : save(1, x.type, x.e, MaxListed)
    \/ get_all(1)
    \/ \E u \in Ids : get_by_user(1, u)
    \/ \E r \in Ids : get_by_recipe(1, r)
    \/ next_page(1)
    \/ Return(1)
    \/ IndexPropagate

SpecPage == Init /\ [][PageNext]_vars

(***************************************************************************)
(* SpecConc: two callers save entities that share their keys, the puts     *)
(* reaching the store in either order.                                     *)
(***************************************************************************)
MaxShared == 1       \* saves are not issued beyond this many stored items

Shared ==
    Typed("Recipe", {ARecipe("a", Num(4)),
                     [ARecipe("a", None) EXCEPT !.title = "Stew"]})
    \cup Typed("UserProfile", {AUser("a", Num(30)),
                               [AUser("a", None) EXCEPT !.name = "Bob"]})
    \cup Typed("MealPlan", {AMealPlan("a", "a", 1, TRUE),
                            AMealPlan("a", "a", 2, FALSE)})
    \cup Typed("Feedback", {AFeedback("a", "a", "a", 5),
                            [AFeedback("a", "a", "a", 1)
                               EXCEPT !.would_make_again = FALSE]})
    \cup Typed("GroceryList", {AGroceryList("a", "a"),
                               [AGroceryList("a", "a")
                                  EXCEPT !.items = <<AnItem>>,
                                         !.week_start_date = Date(1)]})

ConcNext ==
    \/ \E a \in Callers, x \in Shared : save(a, x.type, x.e, MaxShared)
    \/ \E a \in Callers : Return(a)
    \/ IndexPropagate

SpecConc == Init /\ [][ConcNext]_vars

(***************************************************************************)
(* SpecRace: two callers save and delete one entity of each type, the      *)
(* requests of their deletes interleaving.                                 *)
(***************************************************************************)
Raced ==
    Typed("Recipe", {ARecipe("a", Num(4))})
    \cup Typed("UserProfile", {AUser("a", Num(30))})
    \cup Typed("MealPlan", {AMealPlan("a", "a", 1, TRUE)})
    \cup Typed("Feedback", {AFeedback("a", "a", "a", 5)})
    \cup Typed("GroceryList", {AGroceryList("a", "a")})

RaceNext ==
    \/ \E a \in Callers, x \in Raced : save(a, x.type, x.e, MaxShared)
    \/ \E a \in Callers, repo \in EntityTypes : delete(a, repo, "a")
    \/ \E a \in Callers : delete_locate(a)
    \/ \E a \in Callers : delete_item(a)
    \/ \E a \in Callers : Return(a)
    \/ IndexPropagate

SpecRace == Init /\ [][RaceNext]_vars

(***************************************************************************)
(* SpecMap: the mappers alone.  Two entities are drawn, mapped to items at *)
(* two times, the items are put into an empty table one after the other,   *)
(* and the first item is mapped back.                                      *)
(***************************************************************************)
MapInit ==
    /\ m_pc = "in"
    /\ m_in \in (PayloadInputs \cup KeyInputs) \X KeyInputs
    /\ m_item = <<>>
    /\ m_tbl = {}
    /\ m_back = None
    /\ RepoInit
    /\ DomOff

MapToItem ==
    /\ m_pc = "in"
    /\ \E t1 \in 0..MaxClock, t2 \in 0..MaxClock :
         /\ t1 <= t2
         /\ m_item' = <<to_dynamodb_item(m_in[1].type, m_in[1].e, t1),
                        to_dynamodb_item(m_in[2].type, m_in[2].e, t2)>>
    /\ m_pc' = "item"
    /\ UNCHANGED <<dvars, rvars, m_in, m_tbl, m_back>>

MapPut ==
    /\ m_pc = "item"
    /\ m_tbl' = PutItem(PutItem({}, m_item[1]), m_item[2])
    /\ m_pc' = "stored"
    /\ UNCHANGED <<dvars, rvars, m_in, m_item, m_back>>

MapFromItem ==
    /\ m_pc = "stored"
    /\ m_back' = from_dynamodb_item(m_in[1].type, m_item[1])
    /\ m_pc' = "back"
    /\ UNCHANGED <<dvars, rvars, m_in, m_item, m_tbl>>

MapNext == MapToItem \/ MapPut \/ MapFromItem

SpecMap == MapInit /\ [][MapNext]_vars

(***************************************************************************)
(* C1: idempotent save.  In every repository, when save(e) is called again *)
(* right after save(e) returned, exactly one item is stored at e's         *)
(* (PK, SK) afterwards, and the keys present in the table after the second *)
(* save are the keys that were present after the first.                    *)
(***************************************************************************)
C1_IdempotentSave ==
    [][\A a \in Callers :
         (/\ pc[a] = "returning" /\ call[a].op = "save" /\ call[a].n = 1
          /\ pc'[a] = "returning" /\ call'[a].op = "save" /\ call'[a].n = 2)
         => LET item == to_dynamodb_item(call[a].repo, call[a].e, clock)
            IN  /\ Keys(table') = Keys(table)
                /\ Cardinality(GetItem(table', item.PK, item.SK)) = 1]_vars

C1_Witness_SavedTwice ==
    \E a \in Callers :
      /\ pc[a] = "returning" /\ call[a].op = "save" /\ call[a].n = 2
      /\ clock > 0
      /\ Cardinality(table) = 2
      /\ to_dynamodb_item(call[a].repo, call[a].e, clock) \in table

(***************************************************************************)
(* C2: delete semantics.  In every repository, delete(id) for an id with   *)
(* no stored item returns false, raises nothing and leaves the table as it *)
(* was; delete(id) for an id whose item is stored returns true and removes *)
(* the item, so that an exists(id) issued afterwards returns false.        *)
(***************************************************************************)
C2_DeleteSemantics ==
    \A a \in Callers :
      (pc[a] = "returning" /\ call[a].op = "delete") =>
        IF call[a].stored0
        THEN /\ ret[a] = Truth(TRUE)
             /\ ~Stored(table, call[a].repo, call[a].id)
             /\ \A Items \in LocatePages(table, gsi, call[a].repo, call[a].id) :
                  Items = <<>>
        ELSE /\ ret[a] = Truth(FALSE)
             /\ loc[a].removed = {}

(***************************************************************************)
(* C3: locate-then-delete race.  A delete whose entity another actor       *)
(* removed between its locate step and its delete-by-key request returns   *)
(* false; delete returns true only if its own delete-by-key request        *)
(* removed an item.                                                        *)
(***************************************************************************)
C3_TrueOnlyIfRemoved ==
    \A a \in Callers :
      (pc[a] = "returning" /\ call[a].op = "delete") =>
        (ret[a] = Truth(TRUE) => loc[a].removed # {})

(***************************************************************************)
(* C4: pagination completeness.  With no write during the call, get_all,   *)
(* get_by_user and get_by_recipe return every matching item exactly once,  *)
(* however the store splits the items into pages, empty pages with a token *)
(* included, and they return only after a response without a token.        *)
(***************************************************************************)
Finders == {"get_all", "get_by_user", "get_by_recipe"}

C4_PaginationComplete ==
    \A a \in Callers :
      (/\ pc[a] = "returning"
       /\ call[a].op \in Finders
       /\ Matching(table, gsi, call[a]) = loc[a].src0)
      => /\ "listing" \in DOMAIN ret[a]
         /\ Len(ret[a].listing) = Cardinality(loc[a].src0)
         /\ \A i \in loc[a].src0 :
              Cardinality({k \in 1..Len(ret[a].listing) :
                             ret[a].listing[k]
                               = from_dynamodb_item(call[a].repo, i)}) = 1
         /\ loc[a].lek = None

C4_Witness_ManyPages ==
    \E a \in Callers :
      /\ pc[a] = "returning"
      /\ call[a].op \in Finders
      /\ Matching(table, gsi, call[a]) = loc[a].src0
      /\ Cardinality(loc[a].src0) = 2
      /\ loc[a].requests > 2
      /\ loc[a].idle > 0

(***************************************************************************)
(* C5: the meal-plan finders examine all of the user's plans.  Whenever a  *)
(* stored plan of u is active, get_active_by_user(u) returns an active     *)
(* plan of u, and whenever a stored plan of u starts on d,                 *)
(* get_by_user_and_week(u, d) returns a plan of u starting on d; neither   *)
(* returns absent, however the store pages u's plans.                      *)
(***************************************************************************)
PlansOf(user_id) ==
    {from_dynamodb_item("MealPlan", i) :
       i \in QueryTable(table, "USER#" \o user_id, "MEALPLAN#")}

C5_FindersExamineAllPlans ==
    \A a \in Callers :
      /\ (pc[a] = "returning" /\ call[a].op = "get_active_by_user") =>
           ((\E p \in PlansOf(call[a].user_id) : p.is_active) =>
              \E p \in PlansOf(call[a].user_id) :
                p.is_active /\ ret[a] = Value(p))
      /\ (pc[a] = "returning" /\ call[a].op = "get_by_user_and_week") =>
           ((\E p \in PlansOf(call[a].user_id) :
               p.week_start_date = call[a].week_start_date) =>
              \E p \in PlansOf(call[a].user_id) :
                /\ p.week_start_date = call[a].week_start_date
                /\ ret[a] = Value(p))

(***************************************************************************)
(* C6: active-plan lookup.  When exactly one stored plan of u is active,   *)
(* get_active_by_user(u) returns that plan, whatever the order of the      *)
(* store's answer and whatever else is stored under USER#u; when no plan   *)
(* of u is active it returns absent.                                       *)
(***************************************************************************)
ActivePlansOf(user_id) == {p \in PlansOf(user_id) : p.is_active}

C6_ActivePlanLookup ==
    \A a \in Callers :
      (pc[a] = "returning" /\ call[a].op = "get_active_by_user") =>
        /\ Cardinality(ActivePlansOf(call[a].user_id)) = 1 =>
             \E p \in ActivePlansOf(call[a].user_id) : ret[a] = Value(p)
        /\ ActivePlansOf(call[a].user_id) = {} => ret[a] = Value(None)

(***************************************************************************)
(* C7: round trip, from_item(to_item(e)) equals e on every domain field,   *)
(* for every entity type, including optional numeric fields that are zero, *)
(* absent optional fields and empty nested collections.                    *)
(***************************************************************************)
C7_RoundTrip == m_pc = "back" => m_back = m_in[1].e

(***************************************************************************)
(* C8: the (PK, SK) assigned by the mappers is injective over entities:    *)
(* two entities get the same key only if they have the same type and agree *)
(* on the fields the key is built from; hence putting the item of an       *)
(* entity of one type leaves a stored item of another type in place.       *)
(***************************************************************************)
C8_KeyInjective ==
    /\ m_pc # "in" =>
         (SameKey(m_item[1], m_item[2]) =>
            /\ m_in[1].type = m_in[2].type
            /\ KeyFields(m_in[1]) = KeyFields(m_in[2]))
    /\ m_pc \in {"stored", "back"} =>
         (m_in[1].type # m_in[2].type => m_item[1] \in m_tbl)

C8_Witness_CrossType ==
    /\ m_pc = "stored"
    /\ m_in[1].type # m_in[2].type
    /\ KeyFields(m_in[1]) = KeyFields(m_in[2])
    /\ Cardinality(m_tbl) = 2

(***************************************************************************)
(* C9: last write wins.  When two callers have both saved entities with    *)
(* the same (PK, SK), both saves returned without an error, and the table  *)
(* holds one item under that key, whose payload is in full the payload of  *)
(* the entity whose put the store applied last.                            *)
(***************************************************************************)
SavedItem(a) == to_dynamodb_item(call[a].repo, call[a].e, clock)

BothSaved(a, b) ==
    /\ a # b
    /\ pc[a] = "returning" /\ call[a].op = "save"
    /\ pc[b] = "returning" /\ call[b].op = "save"
    /\ SameKey(SavedItem(a), SavedItem(b))

C9_LastWriteWins ==
    \A a \in Callers, b \in Callers :
      BothSaved(a, b) =>
        /\ ret[a] = Value(None)
        /\ ret[b] = Value(None)
        /\ lastPut \in {a, b}
        /\ {i.Data : i \in GetItem(table, SavedItem(a).PK, SavedItem(a).SK)}
             = {SavedItem(lastPut).Data}
        /\ Cardinality(GetItem(table, SavedItem(a).PK, SavedItem(a).SK)) = 1

C9_Witness_SecondPutWins ==
    /\ BothSaved(1, 2)
    /\ call[1].e # call[2].e
    /\ lastPut = 1
    /\ SavedItem(1) \in table

MaxIndexed == 3      \* saves are not issued beyond this many stored items

ThePlan == AMealPlan("a", "a", 1, TRUE)
TheRecipe == ARecipe("a", Num(4))
TheFeedback == AFeedback("a", "a", "a", 5)

Indexed ==
    Typed("MealPlan", {ThePlan, AMealPlan("a", "a", 2, FALSE),
                       AMealPlan("a", "b", 1, TRUE)})
    \cup Typed("Recipe", {TheRecipe})
    \cup Typed("Feedback", {TheFeedback})

IndexedKeys == {KeyOf(to_dynamodb_item(x.type, x.e, 0)) : x \in Indexed}

IndexNext ==
    \/ \E x \in Indexed : save(1, x.type, x.e, MaxIndexed)
    \/ get_by_id(1, "MealPlan", "a")
    \/ exists(1, "MealPlan", "a")
    \/ get_all(1)
    \/ get_by_recipe(1, "a")
    \/ next_page(1)
    \/ Return(1)
    \/ IndexPropagate

SpecIndex ==
    /\ Init
    /\ [][IndexNext]_vars
    /\ \A k \in IndexedKeys : WF_gsi(IndexPropagateAt(k))
    /\ WF_pc(Return(1))

\* the entity was the last one written and nothing was written since
LastSaved(repo, e) == saved = [repo |-> repo, e |-> e]

\* a method of the repository is returning to caller 1
Returning(op, repo) ==
    /\ pc[1] = "returning"
    /\ call[1].op = op
    /\ call[1].repo = repo

\* what the lookups by id of the saved plan return now
PlanLookupsReturn(p) ==
    /\ Returning("get_by_id", "MealPlan") /\ call[1].id = p.id
         => ret[1] = Value(p)
    /\ Returning("exists", "MealPlan") /\ call[1].id = p.id
         => ret[1] = Truth(TRUE)

\* the finder's result holds the entity
ListHolds(op, repo, e) ==
    Returning(op, repo) =>
      /\ "listing" \in DOMAIN ret[1]
      /\ \E k \in 1..Len(ret[1].listing) : ret[1].listing[k] = e

\* get_by_id returns nothing or a plan of the id asked for
NoOtherPlan ==
    Returning("get_by_id", "MealPlan") /\ "value" \in DOMAIN ret[1]
      => \/ ret[1].value = None
         \/ ret[1].value.id = call[1].id

\* C11: after save(p) of a meal plan that nothing writes after, get_by_id
\* and exists of its id in the end return p and TRUE and go on doing so;
\* get_all and get_by_recipe likewise hold a recipe and a feedback saved
\* last; and get_by_id never returns a plan of another id.
C11_IndexLookupsConverge ==
    /\ []NoOtherPlan
    /\ <>[]LastSaved("MealPlan", ThePlan) => <>[]PlanLookupsReturn(ThePlan)
    /\ <>[]LastSaved("Recipe", TheRecipe)
         => <>[]ListHolds("get_all", "Recipe", TheRecipe)
    /\ <>[]LastSaved("Feedback", TheFeedback)
         => <>[]ListHolds("get_by_recipe", "Feedback", TheFeedback)

(***************************************************************************)
(* Error translation (errors.py).  A ClientError carries                   *)
(* response["Error"]["Code"] and ["Message"]; the domain exception is a    *)
(* class with a message.                                                   *)
(***************************************************************************)
UpperCase == "ABCDEFGHIJKLMNOPQRSTUVWXYZ"
LowerCase == "abcdefghijklmnopqrstuvwxyz"

\* a lower() that leaves its argument as it is
lower_Unchanged(s) == s

\* the lower-case letter of each upper-case letter
LowerOfLetter ==
    [c \in {SubSeq(UpperCase, k, k) : k \in 1..Len(UpperCase)} |->
       LET k == CHOOSE j \in 1..Len(UpperCase) : SubSeq(UpperCase, j, j) = c
       IN  SubSeq(LowerCase, k, k)]

\* str.lower()
RECURSIVE lower(_)
lower(s) ==
    IF s = "" THEN ""
    ELSE LET c == SubSeq(s, 1, 1)
         IN  (IF c \in DOMAIN LowerOfLetter THEN LowerOfLetter[c] ELSE c)
             \o lower(SubSeq(s, 2, Len(s)))

ClientError(code, message) == [Code |-> code, Message |-> message]

\* exception_map.get(entity_type.lower(), DomainException)
exception_class(entity_type) ==
    LET key == lower(entity_type)
    IN  CASE key = "recipe" -> "RecipeError"
          [] key = "user" -> "UserError"
          [] key = "mealplan" -> "MealPlanError"
          [] key = "feedback" -> "RecipeError"
          [] key = "grocerylist" -> "RecipeError"
          [] OTHER -> "DomainException"

translate_dynamodb_error(error, entity_type) ==
    LET error_code == error.Code
        error_message == error.Message
    IN  [class |-> exception_class(entity_type),
         message |->
           CASE error_code = "ResourceNotFoundException" ->
                  entity_type \o " not found in repository"
             [] error_code = "ValidationException" ->
                  "Invalid " \o entity_type \o " data: " \o error_message
             [] error_code = "ConditionalCheckFailedException" ->
                  "Condition check failed for " \o entity_type
             [] error_code = "ProvisionedThroughputExceededException" ->
                  "DynamoDB throughput exceeded for " \o entity_type
             [] error_code = "ItemCollectionSizeLimitExceededException" ->
                  "Item collection size limit exceeded for " \o entity_type
             [] OTHER ->
                  "DynamoDB error for " \o entity_type \o ": "
                    \o error_message]

\* the codes the function tells apart, and one it does not
ErrorCodes ==
    {"ResourceNotFoundException", "ValidationException",
     "ConditionalCheckFailedException",
     "ProvisionedThroughputExceededException",
     "ItemCollectionSizeLimitExceededException", "InternalServerError"}

ErrorMessages == {"Requested resource not found", "Rate exceeded"}

\* the entity types the repositories pass, the same in other cases, and
\* names that are in no family
EntityTypeNames ==
    {"Recipe", "User", "MealPlan", "Feedback", "GroceryList",
     "recipe", "user", "mealplan", "feedback", "grocerylist",
     "RECIPE", "USER", "MEALPLAN", "FeedBack", "GROCERYLIST",
     "UserProfile", "Ingredient", "meal_plan", "grocery list", ""}

(***************************************************************************)
(* SpecErr: translate_dynamodb_error applied to every error and entity     *)
(* type name.                                                              *)
(***************************************************************************)
ErrInit ==
    /\ d_pc = "call"
    /\ d_obj = None
    /\ d_call \in {[op |-> "translate_dynamodb_error",
                    error |-> ClientError(c, m), entity_type |-> t] :
                     c \in ErrorCodes, m \in ErrorMessages,
                     t \in EntityTypeNames}
    /\ d_ret = None
    /\ d_log = <<>>
    /\ MapOff
    /\ RepoInit

Translate ==
    /\ d_pc = "call"
    /\ d_call.op = "translate_dynamodb_error"
    /\ d_ret' = translate_dynamodb_error(d_call.error, d_call.entity_type)
    /\ d_pc' = "done"
    /\ UNCHANGED <<mvars, rvars, d_obj, d_call, d_log>>

SpecErr == ErrInit /\ [][Translate]_vars

Translated == d_pc = "done" /\ d_call.op = "translate_dynamodb_error"

\* the entity type without regard to case: the same letters, of either case
SameLetters(s, t) ==
    /\ Len(s) = Len(t)
    /\ \A k \in 1..Len(s) :
         \/ SubSeq(s, k, k) = SubSeq(t, k, k)
         \/ \E j \in 1..Len(UpperCase) :
              /\ SubSeq(s, k, k) \in {SubSeq(UpperCase, j, j),
                                      SubSeq(LowerCase, j, j)}
              /\ SubSeq(t, k, k) \in {SubSeq(UpperCase, j, j),
                                      SubSeq(LowerCase, j, j)}

Family(t, names) == \E n \in names : SameLetters(t, n)

\* C12 as stated: the class is RecipeError for recipe, UserError for user,
\* MealPlanError for mealplan, whatever the case of the letters, and
\* DomainException for every other entity type, feedback and grocery list
\* among them.
C12_FamilyByEntityType_AsStated ==
    Translated =>
      d_ret.class =
        CASE Family(d_call.entity_type, {"recipe"}) -> "RecipeError"
          [] Family(d_call.entity_type, {"user"}) -> "UserError"
          [] Family(d_call.entity_type, {"mealplan"}) -> "MealPlanError"
          [] OTHER -> "DomainException"

\* C12, amended: the class is chosen by the entity type alone, whatever the
\* case of its letters and whatever the error code: RecipeError for recipe,
\* feedback and grocerylist, UserError for user, MealPlanError for mealplan,
\* DomainException for every other entity type; every other error code and
\* message gives the same class for that entity type.
C12_FamilyByEntityType ==
    Translated =>
      /\ d_ret.class =
           CASE Family(d_call.entity_type,
                       {"recipe", "feedback", "grocerylist"}) -> "RecipeError"
             [] Family(d_call.entity_type, {"user"}) -> "UserError"
             [] Family(d_call.entity_type, {"mealplan"}) -> "MealPlanError"
             [] OTHER -> "DomainException"
      /\ \A c \in ErrorCodes, m \in ErrorMessages :
           translate_dynamodb_error(ClientError(c, m),
                                    d_call.entity_type).class = d_ret.class

C12_Witness_FeedbackIsRecipeError ==
    /\ Translated
    /\ d_call.entity_type = "Feedback"
    /\ d_call.error.Code = "ValidationException"
    /\ d_ret.class = "RecipeError"

(***************************************************************************)
(* Failing store requests.  Every repository method runs its requests      *)
(* inside "try: ... except ClientError as e: handle_dynamodb_error(e,      *)
(* <entity type>)", followed where the method returns a value by a return  *)
(* statement for the case that the handler comes back.  A request that     *)
(* fails changes nothing in the store.                                     *)
(***************************************************************************)
\* a handler that comes back to its caller
handle_dynamodb_error_Returns(error, entity_type) == None

\* raise translate_dynamodb_error(error, entity_type)
handle_dynamodb_error(error, entity_type) ==
    Raised(translate_dynamodb_error(error, entity_type).class)

\* the entity type each repository hands to handle_dynamodb_error
HandlerEntityType(repo) ==
    CASE repo = "Recipe" -> "Recipe"
      [] repo = "UserProfile" -> "User"
      [] repo = "MealPlan" -> "MealPlan"
      [] repo = "Feedback" -> "Feedback"
      [] repo = "GroceryList" -> "GroceryList"

\* the statement after the handler: "return None", "return []",
\* "return False"; save has none and ends, returning None
AfterHandler(c) ==
    CASE c.op \in {"get_all", "get_by_user", "get_by_recipe"} ->
           Listing(<<>>)
      [] c.op \in {"delete", "exists"} -> Truth(FALSE)
      [] OTHER -> Value(None)

except_ClientError(c, error) ==
    LET raised == handle_dynamodb_error(error, HandlerEntityType(c.repo))
    IN  IF raised # None THEN raised ELSE AfterHandler(c)

\* the first request of a method fails (in delete: the request of
\* self.exists, whose exception passes through delete's own handler)
first_request_fails(a, c, error) ==
    /\ pc[a] = "idle"
    /\ call' = [call EXCEPT ![a] =
                  IF c.op = "delete"
                  THEN [op |-> "delete", repo |-> c.repo, id |-> c.id,
                        stored0 |-> Stored(table, c.repo, c.id)]
                  ELSE c]
    /\ ret' = [ret EXCEPT ![a] = except_ClientError(c, error)]
    /\ loc' = [loc EXCEPT ![a] = [failed |-> error.Code, at |-> "idle"]]
    /\ pc' = [pc EXCEPT ![a] = "returning"]
    /\ UNCHANGED <<dvars, mvars, table, gsi, clock, saved, lastPut>>

\* a later request fails: the second locate request or the delete_item of
\* delete, a further page of a finder
later_request_fails(a, error) ==
    /\ pc[a] \in {"locate", "delete_item", "next_page"}
    /\ ret' = [ret EXCEPT ![a] = except_ClientError(call[a], error)]
    /\ loc' = [loc EXCEPT ![a] = [failed |-> error.Code, at |-> pc[a]]]
    /\ pc' = [pc EXCEPT ![a] = "returning"]
    /\ UNCHANGED <<dvars, mvars, table, gsi, clock, call, saved, lastPut>>

(***************************************************************************)
(* SpecFail: one caller and every method of the five repositories, each    *)
(* request of which may fail.                                              *)
(***************************************************************************)
MaxStocked == 2      \* saves are not issued beyond this many stored items

Stocked ==
    Typed("Recipe", {ARecipe("a", Num(4))})
    \cup Typed("UserProfile", {AUser("a", Num(30))})
    \cup Typed("MealPlan", {AMealPlan("a", "a", 1, TRUE)})
    \cup Typed("Feedback", {AFeedback("a", "a", "a", 5)})
    \cup Typed("GroceryList", {AGroceryList("a", "a")})

\* the calls a caller can make
Calls ==
    {[op |-> "save", repo |-> x.type, e |-> x.e, n |-> 1] : x \in Stocked}
    \cup {[op |-> op, repo |-> repo, id |-> id] :
            op \in {"get_by_id", "exists"}, repo \in EntityTypes, id \in Ids}
    \cup {[op |-> "delete", repo |-> repo, id |-> id] :
            repo \in EntityTypes, id \in Ids}
    \cup {[op |-> "get_active_by_user", repo |-> "MealPlan",
           user_id |-> u] : u \in Ids}
    \cup {[op |-> "get_by_user_and_week", repo |-> "MealPlan",
           user_id |-> u, week_start_date |-> Date(1)] : u \in Ids}
    \cup {[op |-> "get_by_meal_plan", repo |-> "GroceryList",
           meal_plan_id |-> m] : m \in Ids}
    \cup {[op |-> "get_all", repo |-> "Recipe"]}
    \cup {[op |-> "get_by_user", repo |-> "Feedback", user_id |-> u] :
            u \in Ids}
    \cup {[op |-> "get_by_recipe", repo |-> "Feedback", recipe_id |-> r] :
            r \in Ids}

StoreErrors ==
    {ClientError(c, "Rate exceeded") :
       c \in {"ProvisionedThroughputExceededException",
              "InternalServerError"}}

FailNext ==
    \/ \E x \in Stocked : save(1, x.type, x.e, MaxStocked)
    \/ \E repo \in EntityTypes, id \in Ids : get_by_id(1, repo, id)
    \/ \E repo \in EntityTypes, id \in Ids : exists(1, repo, id)
    \/ \E repo \in EntityTypes, id \in Ids : delete(1, repo, id)
    \/ delete_locate(1)
    \/ delete_item(1)
    \/ \E u \in Ids : get_active_by_user(1, u)
    \/ \E u \in Ids : get_by_user_and_week(1, u, Date(1))
    \/ \E m \in Ids : get_by_meal_plan(1, m)
    \/ get_all(1)
    \/ \E u \in Ids : get_by_user(1, u)
    \/ \E r \in Ids : get_by_recipe(1, r)
    \/ next_page(1)
    \/ \E c \in Calls, error \in StoreErrors : first_request_fails(1, c, error)
    \/ \E error \in StoreErrors : later_request_fails(1, error)
    \/ Return(1)
    \/ IndexPropagate

SpecFail == Init /\ [][FailNext]_vars

DomainExceptions ==
    {"RecipeError", "UserError", "MealPlanError", "DomainException"}

\* a request of the method caller a runs has failed
Failed(a) ==
    /\ pc[a] = "returning"
    /\ loc[a] # None
    /\ "failed" \in DOMAIN loc[a]

\* C13: in the step in which a request of a method fails, the method
\* raises a domain exception, the table stays as it is, and the method is
\* at its end; from then on the caller's next step is the return, so that
\* no request follows the failed one, and the table still stays as it is.
C13_FailuresTranslatedNotRetried ==
    [][/\ ~Failed(1) /\ Failed(1)' =>
            /\ \E k \in DomainExceptions : ret'[1] = Raised(k)
            /\ table' = table
       /\ Failed(1) =>
            /\ table' = table
            /\ pc'[1] \in {"returning", "idle"}
            /\ pc'[1] = "returning" => <<call'[1], loc'[1], ret'[1]>>
                                         = <<call[1], loc[1], ret[1]>>]_vars

\* the second locate request of a delete has failed with an item stored
C13_Witness_DeleteLocateFails ==
    /\ Failed(1)
    /\ call[1].op = "delete"
    /\ loc[1].at = "locate"
    /\ table # {}
    /\ ret[1] = Raised("MealPlanError")

ReadOps ==
    {"get_by_id", "exists", "get_active_by_user", "get_by_user_and_week",
     "get_by_meal_plan", "get_all", "get_by_user", "get_by_recipe"}

\* the items the key condition of a single-result finder matches
SingleMatching(tbl, c) ==
    CASE c.op = "get_by_meal_plan" ->
           QueryTable(tbl, "MEALPLAN#" \o c.meal_plan_id, "GROCERYLIST#")
      [] OTHER -> QueryTable(tbl, "USER#" \o c.user_id, "MEALPLAN#")

\* caller 1 takes the step in which this kind of method ends, its requests
\* answered
Answered(ops) ==
    /\ pc[1] \in {"idle", "next_page"}
    /\ pc'[1] = "returning"
    /\ call'[1].op \in ops
    /\ ~Failed(1)'

\* C14: when the store answers with no matching item, get_by_id and the
\* single-result finders return None and the list finders return the empty
\* list, none of them raising; and no step of a read method changes the
\* table.
C14_NotFoundIsAValue ==
    [][/\ /\ Answered({"get_by_id"})
          /\ Located(table, gsi, call'[1].repo, call'[1].id) = {}
          => ret'[1] = Value(None)
       /\ /\ Answered({"get_active_by_user", "get_by_user_and_week",
                       "get_by_meal_plan"})
          /\ SingleMatching(table, call'[1]) = {}
          => ret'[1] = Value(None)
       /\ /\ Answered(Finders)
          /\ loc'[1].src0 = {}
          /\ Matching(table, gsi, call'[1]) = {}
          => ret'[1] = Listing(<<>>)
       /\ call[1].op \in ReadOps \/ call'[1].op \in ReadOps
          => table' = table]_vars

\* get_by_id of a feedback that is not stored has returned None, another
\* feedback being stored
C14_Witness_AbsentFeedback ==
    /\ pc[1] = "returning"
    /\ call[1].op = "get_by_id"
    /\ call[1].repo = "Feedback"
    /\ call[1].id = "b"
    /\ ~Failed(1)
    /\ ret[1] = Value(None)
    /\ Stored(table, "Feedback", "a")

(***************************************************************************)
(* Items that lack fields.  A stored item is damaged by leaving out fields *)
(* of its Data map and of the sub-records of its nested collection, by     *)
(* emptying the collection, by leaving out Data, or by storing null in a   *)
(* date.                                                                   *)
(***************************************************************************)
MaxMissing == 2      \* at most this many fields are left out of one map

Restrict(rec, keep) == [k \in keep |-> rec[k]]

\* rec without up to MaxMissing of its fields
Lacking(rec) ==
    {Restrict(rec, DOMAIN rec \ gone) :
       gone \in {g \in SUBSET DOMAIN rec : Cardinality(g) <= MaxMissing}}

\* rec with null stored in one of the fields named, or as it is
Nulled(rec, fields) ==
    {rec} \cup {[rec EXCEPT ![f] = None] : f \in fields \cap DOMAIN rec}

\* the nested collection of each entity type, and its dates
Collection(type) ==
    CASE type = "Recipe" -> "ingredients"
      [] type = "MealPlan" -> "meals"
      [] type = "GroceryList" -> "items"
      [] OTHER -> ""

\* the variants of a Data map: its one-element collection emptied or its
\* sub-record damaged, then fields of the map itself
DamagedData(type, data) ==
    LET coll == Collection(type)
        inner == IF coll = "" THEN {data}
                 ELSE {[data EXCEPT ![coll] = <<>>]}
                      \cup {[data EXCEPT ![coll] = <<sub>>] :
                              sub \in UNION {Nulled(r, {"date"}) :
                                               r \in Lacking(data[coll][1])}}
    IN  UNION {UNION {Nulled(r, IF type = "MealPlan"
                                THEN {"week_start_date"} ELSE {}) :
                        r \in Lacking(d)} : d \in inner}

Damaged(type, item) ==
    {Restrict(item, DOMAIN item \ {"Data"})}
    \cup {[item EXCEPT !.Data = d] : d \in DamagedData(type, item.Data)}

\* one entity of each type, its nested collection holding one element
Whole ==
    Typed("Recipe", {ARecipe("a", Num(4))})
    \cup Typed("UserProfile", {AUser("a", Num(30))})
    \cup Typed("MealPlan",
               {[AMealPlan("a", "a", 1, TRUE) EXCEPT !.meals = <<ASlot>>]})
    \cup Typed("Feedback", {AFeedback("a", "a", "a", 5)})
    \cup Typed("GroceryList",
               {[AGroceryList("a", "a") EXCEPT !.items = <<AnItem>>]})

(***************************************************************************)
(* SpecItems: from_dynamodb_item of every mapper applied to damaged items. *)
(***************************************************************************)
ItemsInit ==
    /\ d_pc = "call"
    /\ d_obj = None
    /\ d_call \in UNION {{[op |-> "from_dynamodb_item", type |-> x.type,
                           item |-> i] :
                            i \in Damaged(x.type,
                                          to_dynamodb_item(x.type, x.e, 0))} :
                           x \in Whole}
    /\ d_ret = None
    /\ d_log = <<>>
    /\ MapOff
    /\ RepoInit

FromItem ==
    /\ d_pc = "call"
    /\ d_call.op = "from_dynamodb_item"
    /\ d_ret' = from_dynamodb_item(d_call.type, d_call.item)
    /\ d_pc' = "done"
    /\ UNCHANGED <<mvars, rvars, d_obj, d_call, d_log>>

SpecItems == ItemsInit /\ [][FromItem]_vars

Mapped(types) ==
    /\ d_pc = "done"
    /\ d_call.op = "from_dynamodb_item"
    /\ d_call.type \in types

ItemData == Get(d_call.item, "Data", <<>>)
ItemSubs == Get(ItemData, Collection(d_call.type), <<>>)

\* the field is absent from the map, or null
NoValue(rec, f) == f \notin DOMAIN rec \/ rec[f] = None

\* C15: from_item of a meal plan raises ValueError whenever the item's
\* week_start_date, or the date of one of its meals, is absent or null;
\* and with these dates present and the meals complete it raises nothing,
\* whichever other fields of Data are absent.
C15_MandatoryDatesValueError ==
    Mapped({"MealPlan"}) =>
      LET bad == \/ NoValue(ItemData, "week_start_date")
                 \/ \E i \in 1..Len(ItemSubs) : NoValue(ItemSubs[i], "date")
          complete == \A i \in 1..Len(ItemSubs) :
                        {"recipe_id", "servings"} \subseteq DOMAIN ItemSubs[i]
      IN  /\ bad => d_ret = Raise("ValueError")
          /\ ~bad /\ complete => ~IsErr(d_ret)

\* C16: from_item of a recipe, a user profile, a feedback or a grocery list
\* raises nothing when fields of Data, Data itself, the elements of the
\* nested collection or fields of a nested sub-record are absent.
C16_DefaultsInsteadOfErrors ==
    Mapped({"Recipe", "UserProfile", "Feedback", "GroceryList"}) =>
      ~IsErr(d_ret)

(***************************************************************************)
(* GroceryList (grocery_list.py).  Quantities are whole numbers here.      *)
(***************************************************************************)
\* GroceryItem(name=..., quantity=..., unit=..., recipe_sources=[...])
GroceryItem(name, quantity, unit, recipe_sources) ==
    [name |-> name, quantity |-> quantity, unit |-> unit,
     category |-> "other", recipe_sources |-> recipe_sources,
     is_purchased |-> FALSE, notes |-> None]

\* an add_quantity that stores the new amount in place of the sum
add_quantity_Overwrites(item, additional_quantity) ==
    [item EXCEPT !.quantity = additional_quantity]

\* GroceryItem.add_quantity: self.quantity += additional_quantity
add_quantity(item, additional_quantity) ==
    [item EXCEPT !.quantity = @ + additional_quantity]

\* GroceryList.add_item: self.items.append(item)
add_item(list, item) == [list EXCEPT !.items = Append(@, item)]

\* GroceryList.consolidate_item: the list after the call
consolidate_item(list, name, quantity, unit, recipe_id) ==
    LET name_lower == lower(name)
        hits == {i \in 1..Len(list.items) :
                   /\ lower(list.items[i].name) = name_lower
                   /\ list.items[i].unit = unit}
    IN  IF hits # {}
        THEN LET i == CHOOSE h \in hits : \A g \in hits : h <= g
                 item == add_quantity(list.items[i], quantity)
                 known == \E k \in 1..Len(item.recipe_sources) :
                            item.recipe_sources[k] = recipe_id
             IN  [list EXCEPT !.items[i] =
                    IF known THEN item
                    ELSE [item EXCEPT !.recipe_sources =
                            Append(@, recipe_id)]]
        ELSE add_item(list, GroceryItem(name, quantity, unit, <<recipe_id>>))

(***************************************************************************)
(* SpecGrocery: consolidate_item called again and again on a grocery list  *)
(* that starts empty.                                                      *)
(***************************************************************************)
MaxConsolidated == 3    \* calls made on one list

ItemNames == {"flour", "Flour", "onion"}
ItemUnits == {"cups", "Cups"}
Quantities == {1, 2}
RecipeIds == {"recipe-1", "recipe-2"}

GroceryInit ==
    /\ d_pc = "ready"
    /\ d_obj = AGroceryList("a", "a")
    /\ d_call = NoCall
    /\ d_ret = None
    /\ d_log = <<>>
    /\ MapOff
    /\ RepoInit

Consolidate ==
    /\ d_pc = "ready"
    /\ "items" \in DOMAIN d_obj
    /\ Len(d_log) < MaxConsolidated
    /\ \E name \in ItemNames, quantity \in Quantities, unit \in ItemUnits,
          recipe_id \in RecipeIds :
         /\ d_obj' = consolidate_item(d_obj, name, quantity, unit, recipe_id)
         /\ d_call' = [op |-> "consolidate_item", name |-> name,
                       quantity |-> quantity, unit |-> unit,
                       recipe_id |-> recipe_id]
         /\ d_log' = Append(d_log, d_call')
    /\ d_ret' = Value(None)
    /\ UNCHANGED <<mvars, rvars, d_pc>>

SpecGrocery == GroceryInit /\ [][Consolidate]_vars

Consolidating == d_pc = "ready" /\ "items" \in DOMAIN d_obj

\* C17: no two items of the list have the same name and the same unit, the
\* case of the letters of both left aside.
C17_OneItemPerNameAndUnit ==
    Consolidating =>
      \A i, j \in 1..Len(d_obj.items) :
        /\ lower(d_obj.items[i].name) = lower(d_obj.items[j].name)
        /\ lower(d_obj.items[i].unit) = lower(d_obj.items[j].unit)
        => i = j

\* name.lower() of each name the calls are made with
LowerName == [name \in ItemNames |-> lower(name)]

\* the calls merged into an item: those of its name, in either case, and
\* of its unit
MergedInto(item) ==
    {k \in 1..Len(d_log) :
       /\ LowerName[d_log[k].name] = LowerName[item.name]
       /\ d_log[k].unit = item.unit}

RECURSIVE SumOfQuantities(_)
SumOfQuantities(calls) ==
    IF calls = {} THEN 0
    ELSE LET k == CHOOSE c \in calls : TRUE
         IN  d_log[k].quantity + SumOfQuantities(calls \ {k})

\* C18: each item's quantity is the sum of the quantities of the calls
\* merged into it; its recipe_sources holds the recipe ids of these calls,
\* each once; every call is merged into exactly one item, so that items of
\* one name and different units stay apart; and the number of items never
\* decreases.
C18_ConsolidationArithmetic ==
    /\ [](Consolidating =>
            /\ \A i \in 1..Len(d_obj.items) :
                 LET item == d_obj.items[i]
                     merged == MergedInto(item)
                 IN  /\ merged # {}
                     /\ item.quantity = SumOfQuantities(merged)
                     /\ {item.recipe_sources[k] :
                           k \in 1..Len(item.recipe_sources)}
                          = {d_log[k].recipe_id : k \in merged}
                     /\ \A k, l \in 1..Len(item.recipe_sources) :
                          item.recipe_sources[k] = item.recipe_sources[l]
                            => k = l
            /\ \A k \in 1..Len(d_log) :
                 Cardinality({i \in 1..Len(d_obj.items) :
                                k \in MergedInto(d_obj.items[i])}) = 1)
    /\ [][Consolidating /\ Consolidating'
            => Len(d_obj'.items) >= Len(d_obj.items)]_vars

\* flour from two recipes in one unit, under two spellings, and flour in
\* another unit: two items, the first with the sum and both recipes
C18_Witness_MergedAndApart ==
    /\ Consolidating
    /\ Len(d_log) = 3
    /\ Len(d_obj.items) = 2
    /\ d_obj.items[1].quantity = 3
    /\ d_obj.items[1].recipe_sources = <<"recipe-1", "recipe-2">>
    /\ LowerName[d_obj.items[2].name] = LowerName[d_obj.items[1].name]
    /\ d_log[1].name # d_log[2].name

(***************************************************************************)
(* SpecRate: Feedback objects are constructed with ratings in and out of   *)
(* range; feedback whose rating was assigned after construction is saved   *)
(* (the dataclass is not frozen and to_dynamodb_item does not validate),   *)
(* and one caller reads it back with get_by_id, get_by_user and            *)
(* get_by_recipe.                                                          *)
(***************************************************************************)
MaxRated == 2        \* saves are not issued beyond this many stored items

Ratings == 0..6
\* the ratings at and next to the two ends of the range
AssignedRatings == {0, 1, 5, 6}

Rated ==
    Typed("Feedback", {AFeedback(id, "a", "a", rating) :
                         id \in Ids, rating \in AssignedRatings})

\* Feedback(id=..., rating=rating, ...)
construct_Feedback ==
    /\ pc[1] = "idle"
    /\ \E rating \in Ratings :
         /\ d_call' = [op |-> "Feedback", rating |-> rating]
         /\ d_ret' = Result(Feedback(AFeedback("a", "a", "a", rating)))
    /\ UNCHANGED <<mvars, rvars, d_pc, d_obj, d_log>>

RateNext ==
    \/ construct_Feedback
    \/ \E x \in Rated : save(1, x.type, x.e, MaxRated)
    \/ \E id \in Ids : get_by_id(1, "Feedback", id)
    \/ get_by_user(1, "a")
    \/ get_by_recipe(1, "a")
    \/ next_page(1)
    \/ Return(1)
    \/ IndexPropagate

SpecRate == Init /\ [][RateNext]_vars

InRange(rating) == 1 <= rating /\ rating <= 5

\* the stored item carries a rating out of range
OutOfRange(item) == ~InRange(item.Data.rating.dec)

\* C19: a Feedback is constructed if and only if its rating is in 1..5, and
\* the construction raises ValueError otherwise; every Feedback that
\* get_by_id, get_by_user or get_by_recipe returns has a rating in 1..5;
\* get_by_user raises ValueError when an item of the user is out of range,
\* and so does get_by_id when the first item of the response is.
C19_RatingBounds ==
    /\ d_call.op = "Feedback" =>
         /\ InRange(d_call.rating) <=> "value" \in DOMAIN d_ret
         /\ ~InRange(d_call.rating) <=> d_ret = Raised("ValueError")
         /\ "value" \in DOMAIN d_ret =>
              d_ret.value.rating = d_call.rating
    /\ Returning("get_by_id", "Feedback") =>
         /\ "value" \in DOMAIN ret[1] /\ ret[1].value # None
              => InRange(ret[1].value.rating)
         /\ \A Items \in LocatePages(table, gsi, "Feedback", call[1].id) :
              Items # <<>> /\ OutOfRange(Items[1])
                => FirstItem("Feedback", Items) = Raised("ValueError")
    /\ \A op \in {"get_by_user", "get_by_recipe"} :
         Returning(op, "Feedback") =>
           /\ "listing" \in DOMAIN ret[1] =>
                \A k \in 1..Len(ret[1].listing) :
                  InRange(ret[1].listing[k].rating)
           /\ op = "get_by_user" /\ (\E i \in loc[1].src0 : OutOfRange(i))
                => ret[1] = Raised("ValueError")

\* a rating of 0 was refused at construction, and get_by_user fails on a
\* stored rating of 6 although the user's other feedback is in range
C19_Witness_ReadFails ==
    /\ d_call.op = "Feedback" /\ d_call.rating = 0
    /\ d_ret = Raised("ValueError")
    /\ Returning("get_by_user", "Feedback")
    /\ ret[1] = Raised("ValueError")
    /\ \E i, j \in table :
         i.Data.rating.dec = 6 /\ j.Data.rating.dec = 5

(***************************************************************************)
(* MealPlan (meal_plan.py): each method gives the plan after the call and  *)
(* what the call returns or raises.                                        *)
(***************************************************************************)
\* MealPlan.add_meal: self.meals.append(meal)
add_meal(plan, meal) ==
    [plan |-> [plan EXCEPT !.meals = Append(@, meal)], ret |-> Value(None)]

\* a remove_meal that takes out the first meal of the date only
remove_meal_First(plan, meal_date) ==
    LET hits == {i \in 1..Len(plan.meals) : plan.meals[i].date = meal_date}
    IN  IF hits = {} THEN [plan |-> plan, ret |-> Truth(FALSE)]
        ELSE LET i == CHOOSE h \in hits : \A g \in hits : h <= g
             IN  [plan |-> [plan EXCEPT !.meals =
                              SubSeq(@, 1, i - 1) \o SubSeq(@, i + 1, Len(@))],
                  ret |-> Truth(TRUE)]

\* MealPlan.remove_meal
remove_meal(plan, meal_date) ==
    LET original_length == Len(plan.meals)
        meals == SelectSeq(plan.meals, LAMBDA meal : meal.date # meal_date)
    IN  [plan |-> [plan EXCEPT !.meals = meals],
         ret |-> Truth(Len(meals) < original_length)]

\* MealPlan.get_meal_by_date: the first meal of the date, or None
get_meal_by_date(plan, meal_date) ==
    LET hits == {i \in 1..Len(plan.meals) : plan.meals[i].date = meal_date}
    IN  IF hits = {} THEN None
        ELSE plan.meals[CHOOSE h \in hits : \A g \in hits : h <= g]

\* a swap_meal that replaces every meal of the date
swap_meal_All(plan, meal_date, new_recipe_id, new_servings) ==
    LET hits == {i \in 1..Len(plan.meals) : plan.meals[i].date = meal_date}
        slot == MealSlot([date |-> meal_date, recipe_id |-> new_recipe_id,
                          servings |-> new_servings, notes |-> None])
    IN  IF hits = {} THEN [plan |-> plan, ret |-> Truth(FALSE)]
        ELSE IF IsErr(slot) THEN [plan |-> plan, ret |-> Raised(slot.error)]
        ELSE [plan |-> [plan EXCEPT !.meals =
                          [k \in 1..Len(@) |->
                             IF k \in hits
                             THEN [slot EXCEPT !.notes = plan.meals[k].notes]
                             ELSE plan.meals[k]]],
              ret |-> Truth(TRUE)]

\* MealPlan.swap_meal: the first meal of the date is replaced by a new
\* MealSlot, whose construction may raise before anything is assigned
swap_meal(plan, meal_date, new_recipe_id, new_servings) ==
    LET hits == {i \in 1..Len(plan.meals) : plan.meals[i].date = meal_date}
    IN  IF hits = {} THEN [plan |-> plan, ret |-> Truth(FALSE)]
        ELSE LET i == CHOOSE h \in hits : \A g \in hits : h <= g
                 slot == MealSlot([date |-> meal_date,
                                   recipe_id |-> new_recipe_id,
                                   servings |-> new_servings,
                                   notes |-> plan.meals[i].notes])
             IN  IF IsErr(slot)
                 THEN [plan |-> plan, ret |-> Raised(slot.error)]
                 ELSE [plan |-> [plan EXCEPT !.meals[i] = slot],
                       ret |-> Truth(TRUE)]

(***************************************************************************)
(* SpecPlan: meals are added to, swapped in and removed from a plan that   *)
(* is constructed without meals or with three, two of them on one date;    *)
(* servings of 0 are among the arguments; recipes are constructed with the *)
(* same servings.                                                          *)
(***************************************************************************)
MaxPlanned == 3      \* calls made on one plan

MealDates == {Date(1), Date(2)}
Servings == 0..2
MealNotes == {None, Str("leftovers")}

\* MealPlan(..., meals=[...])
Plans ==
    {AMealPlan("a", "a", 1, TRUE),
     [AMealPlan("a", "a", 1, TRUE) EXCEPT !.meals =
        <<[date |-> Date(1), recipe_id |-> "a", servings |-> 1,
           notes |-> Str("leftovers")],
          [date |-> Date(2), recipe_id |-> "a", servings |-> 2,
           notes |-> None],
          [date |-> Date(1), recipe_id |-> "a", servings |-> 2,
           notes |-> None]>>]}

PlanInit ==
    /\ d_pc = "ready"
    /\ d_obj \in Plans
    /\ d_call = NoCall
    /\ d_ret = None
    /\ d_log = <<>>
    /\ MapOff
    /\ RepoInit

\* a plan on which a further call may be made
Planning == d_pc = "ready" /\ "meals" \in DOMAIN d_obj

\* the call c is made and leaves the plan and the result of after
Called(c, after) ==
    /\ d_call' = c
    /\ d_log' = Append(d_log, c)
    /\ d_obj' = after.plan
    /\ d_ret' = after.ret
    /\ UNCHANGED <<mvars, rvars, d_pc>>

\* plan.add_meal(MealSlot(date=..., recipe_id=..., servings=...)): the
\* argument is constructed first
AddMeal ==
    /\ Planning
    /\ Len(d_log) < MaxPlanned
    /\ \E meal_date \in MealDates, servings \in Servings,
          notes \in MealNotes :
         LET meal == MealSlot([date |-> meal_date, recipe_id |-> "a",
                               servings |-> servings, notes |-> notes])
         IN  Called([op |-> "add_meal", meal_date |-> meal_date,
                     servings |-> servings, notes |-> notes],
                    IF IsErr(meal)
                    THEN [plan |-> d_obj, ret |-> Raised(meal.error)]
                    ELSE add_meal(d_obj, meal))

SwapMeal ==
    /\ Planning
    /\ Len(d_log) < MaxPlanned
    /\ \E meal_date \in MealDates, new_servings \in Servings :
         Called([op |-> "swap_meal", meal_date |-> meal_date,
                 recipe_id |-> "b", servings |-> new_servings],
                swap_meal(d_obj, meal_date, "b", new_servings))

RemoveMeal ==
    /\ Planning
    /\ Len(d_log) < MaxPlanned
    /\ \E meal_date \in MealDates :
         Called([op |-> "remove_meal", meal_date |-> meal_date,
                 servings |-> 1],
                remove_meal(d_obj, meal_date))

\* Recipe(..., servings=...); the plan is not touched
ConstructRecipe ==
    /\ Planning
    /\ Len(d_log) < MaxPlanned
    /\ \E servings \in Servings :
         Called([op |-> "Recipe", meal_date |-> None, servings |-> servings],
                [plan |-> d_obj,
                 ret |-> Result(Recipe([ARecipe("a", None)
                                          EXCEPT !.servings = servings]))])

PlanNext == AddMeal \/ SwapMeal \/ RemoveMeal \/ ConstructRecipe

SpecPlan == PlanInit /\ [][PlanNext]_vars

\* the plan holds a meal of the date
HasMealOn(plan, meal_date) ==
    \E i \in 1..Len(plan.meals) : plan.meals[i].date = meal_date

\* C20: a Recipe and the MealSlot handed to add_meal are constructed if
\* and only if their servings are at least 1, and raise ValueError
\* otherwise; every meal of the plan has servings of at least 1 after any
\* calls of add_meal, swap_meal and remove_meal; and a swap_meal with
\* servings below 1 for a date the plan has a meal on raises ValueError
\* and leaves the meals as they were.
C20_ServingsAtLeastOne ==
    /\ [](Planning =>
            /\ \A i \in 1..Len(d_obj.meals) : d_obj.meals[i].servings >= 1
            /\ d_call.op \in {"Recipe", "add_meal"} =>
                 /\ d_call.servings >= 1 <=> "value" \in DOMAIN d_ret
                 /\ d_call.servings < 1 <=> d_ret = Raised("ValueError")
            /\ d_call.op = "Recipe" /\ "value" \in DOMAIN d_ret =>
                 d_ret.value.servings = d_call.servings)
    /\ [][/\ Planning
           /\ d_log' # d_log
           /\ d_call'.op = "swap_meal"
           /\ d_call'.servings < 1
           /\ HasMealOn(d_obj, d_call'.meal_date)
           => /\ d_ret' = Raised("ValueError")
              /\ d_obj'.meals = d_obj.meals]_vars

\* two meals are planned and a swap of one of them to 0 servings has just
\* been refused
C20_Witness_SwapRefused ==
    /\ Planning
    /\ d_call.op = "swap_meal" /\ d_call.servings = 0
    /\ d_ret = Raised("ValueError")
    /\ Len(d_obj.meals) = 2
    /\ HasMealOn(d_obj, d_call.meal_date)

(***************************************************************************)
(* Recipe.scale (recipe.py).  The quantities of this part are fractions    *)
(* num/den in lowest terms, so that new_servings / self.servings and its   *)
(* product with a quantity are computed, not assumed.                      *)
(***************************************************************************)
RECURSIVE GCD(_, _)
GCD(a, b) == IF b = 0 THEN a ELSE GCD(b, a % b)

\* the number p / q, for q > 0
Ratio(p, q) ==
    LET g == GCD(IF p < 0 THEN -p ELSE p, q)
    IN  IF p = 0 THEN [num |-> 0, den |-> 1]
        ELSE [num |-> p \div g, den |-> q \div g]

\* x * y
Times(x, y) == Ratio(x.num * y.num, x.den * y.den)

\* an Ingredient.scale that keeps the quantity
Ingredient_scale_Unscaled(ingredient, factor) == ingredient

\* Ingredient.scale: a new Ingredient with quantity * factor
Ingredient_scale(ingredient, factor) ==
    [name |-> ingredient.name,
     quantity |-> Times(ingredient.quantity, factor),
     unit |-> ingredient.unit,
     notes |-> ingredient.notes]

\* Recipe.scale: an exception, the recipe itself, or a new Recipe
Recipe_scale(self, new_servings) ==
    IF new_servings < 1 THEN Raise("ValueError")
    ELSE IF self.servings = 0 THEN Raise("ValueError")
    ELSE IF new_servings = self.servings
    THEN [same_object |-> TRUE, recipe |-> self]
    ELSE LET scale_factor == Ratio(new_servings, self.servings)
             scaled_ingredients ==
               [k \in 1..Len(self.ingredients) |->
                  Ingredient_scale(self.ingredients[k], scale_factor)]
             new == Recipe([self EXCEPT !.servings = new_servings,
                                        !.ingredients = scaled_ingredients])
         IN  IF IsErr(new) THEN new
             ELSE [same_object |-> FALSE, recipe |-> new]

(***************************************************************************)
(* SpecScale: recipes of one to three servings, with no, one or two        *)
(* ingredients, are scaled to targets from -1 to 4.                        *)
(***************************************************************************)
ScaledIngredients ==
    {[name |-> "pasta", quantity |-> Ratio(1, 1), unit |-> "lb",
      notes |-> None],
     [name |-> "oil", quantity |-> Ratio(3, 2), unit |-> "tbsp",
      notes |-> Str("extra virgin")]}

ScaledRecipes ==
    {[ARecipe("a", Num(4)) EXCEPT !.servings = servings,
                                  !.ingredients = ingredients] :
       servings \in 1..3,
       ingredients \in {<<>>} \cup {<<x>> : x \in ScaledIngredients}
                       \cup {<<x, y>> : x, y \in ScaledIngredients}}

Targets == (0 - 1)..4

ScaleInit ==
    /\ d_pc = "ready"
    /\ d_obj \in ScaledRecipes
    /\ d_call = NoCall
    /\ d_ret = None
    /\ d_log = <<>>
    /\ MapOff
    /\ RepoInit

\* recipe.scale(new_servings); nothing is assigned to the recipe
Scale ==
    /\ d_pc = "ready"
    /\ "ingredients" \in DOMAIN d_obj
    /\ \E new_servings \in Targets :
         /\ d_call' = [op |-> "scale", new_servings |-> new_servings]
         /\ d_ret' = Result(Recipe_scale(d_obj, new_servings))
    /\ UNCHANGED <<mvars, rvars, d_pc, d_obj, d_log>>

SpecScale == ScaleInit /\ [][Scale]_vars

\* x = q * n / s, for fractions x and q and whole numbers n and s
IsScaled(x, q, n, s) == x.num * q.den * s = q.num * n * x.den

\* C21: scale(n) of a recipe of s servings raises ValueError when n < 1;
\* returns the recipe itself when n = s; otherwise returns a new recipe of
\* n servings whose ingredients keep name, unit, notes and position and
\* have the quantity q * n / s, every other field being the original's;
\* and the call leaves the recipe as it was.
C21_RecipeScaling ==
    /\ [](d_call.op = "scale" =>
            LET n == d_call.new_servings
                s == d_obj.servings
            IN  /\ n < 1 => d_ret = Raised("ValueError")
                /\ n >= 1 /\ n = s =>
                     d_ret = Value([same_object |-> TRUE, recipe |-> d_obj])
                /\ n >= 1 /\ n # s =>
                     /\ "value" \in DOMAIN d_ret
                     /\ ~d_ret.value.same_object
                     /\ LET new == d_ret.value.recipe
                        IN  /\ new.servings = n
                            /\ Len(new.ingredients) = Len(d_obj.ingredients)
                            /\ \A k \in 1..Len(new.ingredients) :
                                 LET x == new.ingredients[k]
                                     o == d_obj.ingredients[k]
                                 IN  /\ x.name = o.name
                                     /\ x.unit = o.unit
                                     /\ x.notes = o.notes
                                     /\ IsScaled(x.quantity, o.quantity, n, s)
                            /\ [new EXCEPT !.servings = s,
                                           !.ingredients = d_obj.ingredients]
                                 = d_obj)
    /\ [][d_call'.op = "scale" => d_obj' = d_obj]_vars

\* a recipe of two servings with two ingredients was scaled to three: the
\* oil went from 3/2 to 9/4
C21_Witness_ScaledUp ==
    /\ d_call.op = "scale" /\ d_call.new_servings = 3
    /\ d_obj.servings = 2
    /\ Len(d_obj.ingredients) = 2
    /\ "value" \in DOMAIN d_ret
    /\ d_ret.value.recipe.servings = 3
    /\ \E k \in 1..2 :
         /\ d_obj.ingredients[k].quantity = [num |-> 3, den |-> 2]
         /\ d_ret.value.recipe.ingredients[k].quantity = [num |-> 9, den |-> 4]

(***************************************************************************)
(* C22: no cascade, single-item effect.  The delete-by-key request of a    *)
(* delete, after which the method returns true, removes exactly one item   *)
(* of the table and leaves every other item, of whatever entity type and   *)
(* owner, as it was.                                                       *)
(***************************************************************************)
C22_DeleteRemovesExactlyOne ==
    [][\A a \in Callers :
         pc[a] = "delete_item" /\ pc'[a] = "returning"
           => /\ ret'[a] = Truth(TRUE)
              /\ \E i \in table : table' = table \ {i}]_vars

(***************************************************************************)
(* C23: feedback index sort key.  When a feedback is saved again, with the *)
(* same id, user, recipe and created_at, at whatever later time, the       *)
(* GSI1PK and the GSI1SK of its stored item are what they were after the   *)
(* first save, so that its place in the by-recipe index does not move.     *)
(***************************************************************************)
C23_FeedbackSortKeyStable ==
    [][\A a \in Callers :
         (/\ pc[a] = "returning" /\ call[a].op = "save" /\ call[a].n = 1
          /\ call[a].repo = "Feedback"
          /\ pc'[a] = "returning" /\ call'[a].op = "save" /\ call'[a].n = 2)
         => \A old \in table, new \in table' :
              KeyOf(old) = KeyOf(new) /\ new.Data.id = call[a].e.id
                => /\ new.GSI1PK = old.GSI1PK
                   /\ new.GSI1SK = old.GSI1SK]_vars

(***************************************************************************)
(* C24: one grocery list per plan.  At most one GroceryList item is stored *)
(* under each MEALPLAN#<mealPlanId> partition, and get_by_meal_plan(m)     *)
(* returns the list of plan m that was saved last and not deleted since.   *)
(***************************************************************************)
C24_OneListPerPlan ==
    /\ \A m \in Ids :
         Cardinality(QueryTable(table, "MEALPLAN#" \o m, "GROCERYLIST#")) <= 1
    /\ (/\ Returning("get_by_meal_plan", "GroceryList")
        /\ saved # None
        /\ saved.repo = "GroceryList"
        /\ saved.e.meal_plan_id = call[1].meal_plan_id)
         => ret[1] = Value(saved.e)

\* the meals of the plan on the date
MealsOn(plan, meal_date) ==
    {i \in 1..Len(plan.meals) : plan.meals[i].date = meal_date}

\* a call of the method has just been made on the plan
JustCalled(op) == Planning /\ d_log' # d_log /\ d_call'.op = op

\* C25: swap_meal(d, r, n) with n >= 1 returns true exactly when a meal has
\* the date d; it then puts a meal of date d, recipe r, servings n and the
\* old notes in the place of the first such meal and leaves the number of
\* meals, their order and every other meal as they were; without a meal on
\* d it returns false and leaves the plan as it was; the number of meals on
\* any date does not grow.
C25_SwapReplacesInPlace ==
    [][JustCalled("swap_meal") /\ d_call'.servings >= 1 =>
         LET d == d_call'.meal_date
             hits == MealsOn(d_obj, d)
         IN  /\ d_ret' = Truth(hits # {})
             /\ hits = {} => d_obj' = d_obj
             /\ hits # {} =>
                  LET i == CHOOSE h \in hits : \A g \in hits : h <= g
                  IN  /\ Len(d_obj'.meals) = Len(d_obj.meals)
                      /\ d_obj'.meals[i] =
                           [date |-> d, recipe_id |-> d_call'.recipe_id,
                            servings |-> d_call'.servings,
                            notes |-> d_obj.meals[i].notes]
                      /\ \A k \in 1..Len(d_obj.meals) :
                           k # i => d_obj'.meals[k] = d_obj.meals[k]
                      /\ [d_obj' EXCEPT !.meals = d_obj.meals] = d_obj
             /\ \A e \in MealDates :
                  Cardinality(MealsOn(d_obj', e))
                    <= Cardinality(MealsOn(d_obj, e))]_vars

\* the first of two meals of one date was swapped and kept its notes, the
\* second is as it was
C25_Witness_FirstOfTwoSwapped ==
    /\ Planning
    /\ d_call.op = "swap_meal" /\ d_ret = Truth(TRUE)
    /\ Len(d_log) = 1
    /\ Len(d_obj.meals) = 3
    /\ d_obj.meals[1] = [date |-> Date(1), recipe_id |-> "b", servings |-> 2,
                          notes |-> Str("leftovers")]
    /\ d_obj.meals[3] = [date |-> Date(1), recipe_id |-> "a", servings |-> 2,
                          notes |-> None]

\* the positions of the meals that are not on the date, in order
Others(plan, meal_date) == (1..Len(plan.meals)) \ MealsOn(plan, meal_date)

\* the j-th smallest member of a set of positions
Nth(S, j) == CHOOSE k \in S : Cardinality({x \in S : x <= k}) = j

\* C26: remove_meal(d) removes every meal of the date d and keeps the
\* others in their order; it returns true if and only if a meal was
\* removed; afterwards get_meal_by_date(d) returns nothing and a second
\* remove_meal(d) returns false and changes nothing.
C26_RemoveByDate ==
    [][JustCalled("remove_meal") =>
         LET d == d_call'.meal_date
             kept == Others(d_obj, d)
         IN  /\ Len(d_obj'.meals) = Cardinality(kept)
             /\ \A j \in 1..Len(d_obj'.meals) :
                  d_obj'.meals[j] = d_obj.meals[Nth(kept, j)]
             /\ [d_obj' EXCEPT !.meals = d_obj.meals] = d_obj
             /\ d_ret' = Truth(MealsOn(d_obj, d) # {})
             /\ d_ret' = Truth(Len(d_obj'.meals) < Len(d_obj.meals))
             /\ get_meal_by_date(d_obj', d) = None
             /\ remove_meal(d_obj', d) =
                  [plan |-> d_obj', ret |-> Truth(FALSE)]]_vars

\* both meals of one date were removed from between which a meal of
\* another date stays, and the same remove_meal was then made again
C26_Witness_RemovedTwice ==
    /\ Planning
    /\ Len(d_log) = 2
    /\ d_log[1] = d_log[2]
    /\ d_call.op = "remove_meal" /\ d_call.meal_date = Date(1)
    /\ d_ret = Truth(FALSE)
    /\ Len(d_obj.meals) = 1
    /\ d_obj.meals[1].date = Date(2)

(***************************************************************************)
(* C27: the scan-based locate covers the whole table.  In the Feedback and *)
(* GroceryList repositories, whenever an item of the id asked for is       *)
(* stored, get_by_id returns an entity, exists returns true and delete     *)
(* returns true and removes the item, on whichever page of the scan the    *)
(* item falls.                                                             *)
(***************************************************************************)
ScanRepos == EntityTypes \ (PointRepos \cup {"MealPlan"})

C27_ScanLocateCoversTable ==
    \A a \in Callers :
      pc[a] = "returning" /\ call[a].op \in {"get_by_id", "exists", "delete"}
        /\ call[a].repo \in ScanRepos
      => /\ call[a].op = "get_by_id"
              /\ Stored(table, call[a].repo, call[a].id)
            => "value" \in DOMAIN ret[a] /\ ret[a].value # None
         /\ call[a].op = "exists"
              /\ Stored(table, call[a].repo, call[a].id)
            => ret[a] = Truth(TRUE)
         /\ call[a].op = "delete" /\ call[a].stored0
            => /\ ret[a] = Truth(TRUE)
               /\ ~Stored(table, call[a].repo, call[a].id)

(***************************************************************************)
(* C28: entity-type isolation of the scan-based operations.  In the        *)
(* Feedback and GroceryList repositories delete removes only items of the  *)
(* repository's entity type, exists is true only if an item of that type   *)
(* has the id, and get_by_id returns only an entity built from an item of  *)
(* that type.                                                              *)
(***************************************************************************)
C28_ScanTypeIsolation ==
    \A a \in Callers :
      pc[a] = "returning" /\ call[a].op \in {"get_by_id", "exists", "delete"}
        /\ call[a].repo \in ScanRepos
      => /\ call[a].op = "delete"
            => \A i \in loc[a].removed : i.EntityType = call[a].repo
         /\ call[a].op = "exists" /\ ret[a] = Truth(TRUE)
            => Stored(table, call[a].repo, call[a].id)
         /\ call[a].op = "get_by_id" /\ "value" \in DOMAIN ret[a]
              /\ ret[a].value # None
            => \E i \in table :
                 /\ i.EntityType = call[a].repo
                 /\ i.Data.id = call[a].id
                 /\ ret[a] = FirstItem(call[a].repo, <<i>>)

(***************************************************************************)
(* SpecNames: recipes, meal plans and feedback are saved, among them a     *)
(* recipe whose id is the string ALL and a feedback on it, and read back   *)
(* through GSI1 with get_all, get_by_recipe and the meal plan get_by_id.   *)
(***************************************************************************)
MaxNamed == 2        \* saves are not issued beyond this many stored items

Named ==
    Typed("Recipe", {ARecipe("a", Num(4)), ARecipe("ALL", Num(4))})
    \cup Typed("Feedback", {AFeedback("a", "a", "ALL", 5),
                            AFeedback("b", "a", "a", 5)})
    \cup Typed("MealPlan", {AMealPlan("a", "a", 1, TRUE)})

NamesNext ==
    \/ \E x \in Named : save(1, x.type, x.e, MaxNamed)
    \/ get_all(1)
    \/ \E r \in {"a", "ALL"} : get_by_recipe(1, r)
    \/ \E id \in {"a", "ALL"} : get_by_id(1, "MealPlan", id)
    \/ next_page(1)
    \/ Return(1)
    \/ IndexPropagate

SpecNames == Init /\ [][NamesNext]_vars

\* the items of the entity type that the table or the index holds
ItemsOfType(type) == {i \in table \cup gsi : i.EntityType = type}

\* C29: get_all returns the stored recipes and nothing built from an item
\* of another type; get_by_recipe(r) returns the stored feedback on recipe
\* r and nothing else; the meal plan get_by_id returns only a plan built
\* from a MealPlan item.
C29_IndexNamespaces ==
    /\ Returning("get_all", "Recipe") =>
         /\ \A i \in loc[1].src0 : i.EntityType = "Recipe"
         /\ "listing" \in DOMAIN ret[1]
         /\ \A k \in 1..Len(ret[1].listing) :
              \E i \in ItemsOfType("Recipe") :
                ret[1].listing[k] = from_dynamodb_item("Recipe", i)
    /\ Returning("get_by_recipe", "Feedback") =>
         /\ \A i \in loc[1].src0 :
              /\ i.EntityType = "Feedback"
              /\ i.Data.recipe_id = call[1].recipe_id
         /\ "listing" \in DOMAIN ret[1]
         /\ \A k \in 1..Len(ret[1].listing) :
              \E i \in ItemsOfType("Feedback") :
                /\ i.Data.recipe_id = call[1].recipe_id
                /\ ret[1].listing[k] = from_dynamodb_item("Feedback", i)
    /\ Returning("get_by_id", "MealPlan") =>
         /\ "value" \in DOMAIN ret[1]
         /\ ret[1].value # None =>
              \E i \in ItemsOfType("MealPlan") :
                ret[1].value = from_dynamodb_item("MealPlan", i)

(***************************************************************************)
(* C30: one item per entity id under re-save.  After any saves the table   *)
(* holds at most one item per MealPlan id, per Feedback id and per         *)
(* GroceryList id, whoever the owner of the saved versions was; and once   *)
(* the index has caught up, a get_by_id of the meal plan saved last        *)
(* returns that version.                                                   *)
(***************************************************************************)
C30_OneItemPerId ==
    /\ \A repo \in EntityTypes \ PointRepos, id \in Ids :
         Cardinality({i \in table : i.EntityType = repo /\ i.Data.id = id})
           <= 1
    /\ (/\ saved # None
        /\ saved.repo = "MealPlan"
        /\ gsi = Projected(table))
         => \A Items \in LocatePages(table, gsi, "MealPlan", saved.e.id) :
              FirstItem("MealPlan", Items) = Value(saved.e)

=============================================================================
